---- MODULE Spec2Model ----
(***************************************************************************)
(* Verification model of tesgazer's per-vehicle control loop: the vehicle  *)
(* state machine (internal/state), the adaptive poll scheduler, the        *)
(* reconciler for poll snapshots and stream tuples, the session segmenter  *)
(* and the sleep gate (internal/service).                                  *)
(*                                                                         *)
(* All per-vehicle state of VehicleService is kept in maps keyed by the    *)
(* car id and the poll loop handles the cars one after the other, so the   *)
(* model follows one car.  Durations are counted in minutes; one scheduler *)
(* tick lasts PollBackoffInitial (the base ticker of pollLoop).            *)
(*                                                                         *)
(* The manual controls, the sleep gate, the streaming client (api/tesla),  *)
(* the WebSocket hub (pkg/ws) and the event log of a parking are explored  *)
(* on their own as well, each under its own specification.                 *)
(***************************************************************************)
EXTENDS Integers, Sequences, FiniteSets, TLC

\* ------------------------------------------------------------------------
\* Configuration under which the model is explored (config.Load reads every
\* one of these from the environment).
PollIntervalOnline == 2
PollIntervalCharging == 1
PollIntervalDriving == 1
PollBackoffInitial == 1
PollBackoffMax == 3
PollBackoffFactor == 2
SuspendAfterIdleMin == 3
SuspendPollInterval == 4

\* Bounds of the exploration.
MaxSessions == 3
MaxJobs == 1
MaxNow == 2

\* ------------------------------------------------------------------------
\* internal/state: the values of the State* and Event* constants
States ==
  {"online", "asleep", "offline", "driving", "charging",
   "updating", "suspended"}

EventNames ==
  {"wake_up", "fall_asleep", "go_offline", "start_driving",
   "stop_driving", "start_charging", "stop_charging",
   "start_updating", "stop_updating", "suspend", "resume"}

\* A variant of the table in which fall_asleep and go_offline cannot leave
\* suspended (the two suspended edges are missing).
FsmEventsNoSuspendedSleep ==
  << [Name |-> "wake_up", Src |-> {"offline", "asleep"}, Dst |-> "online"],
     [Name |-> "fall_asleep", Src |-> {"online"}, Dst |-> "asleep"],
     [Name |-> "go_offline", Src |-> {"online", "asleep"}, Dst |-> "offline"],
     [Name |-> "start_driving", Src |-> {"online"}, Dst |-> "driving"],
     [Name |-> "start_charging", Src |-> {"online"}, Dst |-> "charging"],
     [Name |-> "start_updating", Src |-> {"online"}, Dst |-> "updating"],
     [Name |-> "suspend", Src |-> {"online"}, Dst |-> "suspended"],
     [Name |-> "stop_driving", Src |-> {"driving"}, Dst |-> "online"],
     [Name |-> "stop_charging", Src |-> {"charging"}, Dst |-> "online"],
     [Name |-> "stop_updating", Src |-> {"updating"}, Dst |-> "online"],
     [Name |-> "resume", Src |-> {"suspended"}, Dst |-> "online"],
     [Name |-> "start_driving", Src |-> {"suspended"}, Dst |-> "driving"],
     [Name |-> "start_charging", Src |-> {"suspended"}, Dst |-> "charging"] >>

\* fsm.Events passed to fsm.NewFSM by NewMachine, entry by entry.
FsmEvents ==
  << [Name |-> "wake_up", Src |-> {"offline", "asleep"}, Dst |-> "online"],
     [Name |-> "fall_asleep", Src |-> {"online"}, Dst |-> "asleep"],
     [Name |-> "go_offline", Src |-> {"online", "asleep"}, Dst |-> "offline"],
     [Name |-> "start_driving", Src |-> {"online"}, Dst |-> "driving"],
     [Name |-> "start_charging", Src |-> {"online"}, Dst |-> "charging"],
     [Name |-> "start_updating", Src |-> {"online"}, Dst |-> "updating"],
     [Name |-> "suspend", Src |-> {"online"}, Dst |-> "suspended"],
     [Name |-> "stop_driving", Src |-> {"driving"}, Dst |-> "online"],
     [Name |-> "stop_charging", Src |-> {"charging"}, Dst |-> "online"],
     [Name |-> "stop_updating", Src |-> {"updating"}, Dst |-> "online"],
     [Name |-> "resume", Src |-> {"suspended"}, Dst |-> "online"],
     [Name |-> "fall_asleep", Src |-> {"suspended"}, Dst |-> "asleep"],
     [Name |-> "go_offline", Src |-> {"suspended"}, Dst |-> "offline"],
     [Name |-> "start_driving", Src |-> {"suspended"}, Dst |-> "driving"],
     [Name |-> "start_charging", Src |-> {"suspended"}, Dst |-> "charging"] >>

\* Machine.CanTransition: fsm.Can(event) in state s.
CanTransition(s, e) ==
  \E i \in DOMAIN FsmEvents : FsmEvents[i].Name = e /\ s \in FsmEvents[i].Src

\* The state fsm.Event(event) moves to from s (defined when CanTransition).
Destination(s, e) ==
  FsmEvents[CHOOSE i \in DOMAIN FsmEvents :
              FsmEvents[i].Name = e /\ s \in FsmEvents[i].Src].Dst

\* NewMachine: an empty initial state means offline.
NewMachine(initialState) ==
  IF initialState = "" THEN "offline" ELSE initialState

\* ------------------------------------------------------------------------
\* A machine on its own: any event may be fired from any state.
VARIABLES mState, mSince, mNow, mLast, mCallback

varsMachine == <<mState, mSince, mNow, mLast, mCallback>>

InitMachineIdle ==
  /\ mState = "offline"
  /\ mSince = 0
  /\ mNow = 0
  /\ mLast = [from |-> "", event |-> "", ok |-> FALSE, to |-> ""]
  /\ mCallback = <<>>

\* Machine.Trigger that refreshes Since whether or not fsm.Event failed.
TriggerAlwaysSince(e) ==
  /\ IF CanTransition(mState, e)
       THEN /\ mState' = Destination(mState, e)
            /\ mCallback' = IF mState # Destination(mState, e)
                              THEN <<mState, Destination(mState, e)>>
                              ELSE <<>>
            /\ mLast' = [from |-> mState, event |-> e, ok |-> TRUE,
                         to |-> Destination(mState, e)]
       ELSE /\ UNCHANGED mState
            /\ mCallback' = <<>>
            /\ mLast' = [from |-> mState, event |-> e, ok |-> FALSE, to |-> mState]
  /\ mSince' = mNow
  /\ UNCHANGED mNow

\* Machine.Trigger(event): on an error of fsm.Event nothing is written;
\* otherwise CurrentState and Since are refreshed.  The after_event callback
\* reports (src, dst) when they differ.
Trigger(e) ==
  /\ IF CanTransition(mState, e)
       THEN /\ mState' = Destination(mState, e)
            /\ mSince' = mNow
            /\ mCallback' = IF mState # Destination(mState, e)
                              THEN <<mState, Destination(mState, e)>>
                              ELSE <<>>
            /\ mLast' = [from |-> mState, event |-> e, ok |-> TRUE,
                         to |-> Destination(mState, e)]
       ELSE /\ UNCHANGED <<mState, mSince>>
            /\ mCallback' = <<>>
            /\ mLast' = [from |-> mState, event |-> e, ok |-> FALSE, to |-> mState]
  /\ UNCHANGED mNow

\* time.Now() advances between calls.
ClockTick ==
  /\ mNow < MaxNow
  /\ mNow' = mNow + 1
  /\ UNCHANGED <<mState, mSince, mLast, mCallback>>

\* ------------------------------------------------------------------------
\* internal/service: VehicleService for one car.
\*   fsm            the machine's current state
\*   pollIntervals  s.pollIntervals[carID], Absent when the key is missing
\*   lastPollTimes  minutes elapsed since s.lastPollTimes[carID] (saturated at
\*                  AgeCap; the zero time.Time is as old as can be), or Absent
\*   lastUsedTimes  minutes elapsed since s.lastUsedTimes[carID] (saturated at
\*                  SuspendAfterIdleMin), or Absent
\*   LastUsed       minutes elapsed since VehicleState.LastUsed, which NewMachine
\*                  sets and nothing writes afterwards (saturated likewise)
\*   drives, charges, parkings   the rows of the three session tables of the
\*                  car in insertion order: "open" (end_time NULL) or "closed"
\*   lastPosition   the row the last operation added to the positions table
\*   streamJobs     goroutines spawned by handleStreamData that have not yet
\*                  persisted their Position
\*   phase          "boot" before the initial poll of pollLoop, then "run"
\*   last           what the last operation was given and what it did
VARIABLES fsm, pollIntervals, lastPollTimes, lastUsedTimes, LastUsed, drives,
          charges, parkings, lastPosition, streamJobs, phase, last

varsService ==
  <<fsm, pollIntervals, lastPollTimes, lastUsedTimes, LastUsed, drives, charges,
    parkings, lastPosition, streamJobs, phase, last>>

\* ------------------------------------------------------------------------
\* Components that are explored on their own.
\*   gate   one evaluation of the sleep gate: the conditions of the snapshot,
\*          cfg.RequireNotUnlocked, and the reason canFallAsleep returned
\*   stream the streaming client of the car: its fields, the position of
\*          the reconnect goroutine and of each readLoop goroutine
\*   hub    the WebSocket hub and the channels of the internal subscribers:
\*          the registered clients, their send buffers, the broadcast
\*          channel, the version of the state last published
\*   plog   the event log of the open parking: the flags saved at its
\*          start, parkingPrevStates, the events recorded, and for reference
\*          the samples seen and the edges between them
\*   chg    the charging process of the car: the row as the database has
\*          it, and for reference the charger powers and the energy
\*          counters of the snapshots seen
\*   vstate the fields of VehicleState that the stream writes, and for
\*          reference the tuple handled last
\*   poll   the position of the poll loop inside the body of its loop for
\*          the car, what the vendor answered, and whether an immediate poll
\*          has been requested since the last poll began
\*   life   the life cycle of the process: where main is, the running flag
\*          and the stop channel of the service, its poll loops, the
\*          streaming context and the stream task of the car
VARIABLES gate, stream, hub, plog, chg, vstate, poll, life

varsAux == <<gate, stream, hub, plog, chg, vstate, poll, life>>

GateIdle == [conds |-> {}, require |-> FALSE, reason |-> "", evaluated |-> FALSE]

\* Goroutines of readLoop that can be alive at once.
MaxReaders == 2

ReconnectDelay == 1
MaxReconnectDelay == 30

NoMsg == [msg_type |-> "", error_type |-> "", value |-> <<>>]
NoReader == [pos |-> "none", msg |-> NoMsg]

\* NewStreamingClient; nothing started.
StreamIdle ==
  [vehicleOffline |-> FALSE, connected |-> FALSE, connOpen |-> FALSE,
   stopClosed |-> FALSE, reconnectCh |-> 0, currentDelay |-> ReconnectDelay,
   loop |-> "done", readers |-> [i \in 1..MaxReaders |-> NoReader],
   notified |-> FALSE, dialedOffline |-> FALSE]

\* WebSocket connections made in a run, the capacities of Client.send, of
\* Hub.broadcast and of a channel of Subscribe, and the state updates
\* published in a run.
MaxClients == 2
SendBuffer == 1
BroadcastBuffer == 1
SubscriberBuffer == 1
MaxVersion == 3

NoFrame == [type |-> "", cars |-> FALSE, states |-> -1]

\* NewHub, no client yet, nothing published.  For reference: how often
\* close(client.send) ran for a client, the clients whose ReadPump has ended,
\* and the clients a frame was sent to after their channel was closed.
HubIdle ==
  [clients |-> {}, conn |-> [c \in 1..MaxClients |-> "none"],
   send |-> [c \in 1..MaxClients |-> <<>>], broadcast |-> <<>>, subs |-> <<>>,
   version |-> 0, first |-> [c \in 1..MaxClients |-> NoFrame],
   joined |-> [c \in 1..MaxClients |-> -1], overflowed |-> {}, skipped |-> FALSE,
   closes |-> [c \in 1..MaxClients |-> 0], gone |-> {}, late |-> {}]

\* Samples taken of one parking, and the longest event log that is listed.
MaxSamples == 3
MaxListed == 4

NoPrevState == [known |-> FALSE, flags |-> {}]

\* No parking open, parkingPrevStates empty.
ParkingLogIdle ==
  [open |-> FALSE, start |-> {}, prev |-> NoPrevState, events |-> <<>>,
   times |-> <<>>, listed |-> <<>>,
   sample |-> {}, edges |-> <<>>, n |-> 0, restarted |-> FALSE]

\* Snapshots polled while one charging process is open.
MaxChargeSamples == 3

\* A NULL column.
Null == -1

\* No charging process yet.
ChargeIdle ==
  [row |-> "none", charger_power_max |-> Null, charge_energy_added |-> 0,
   seen |-> {}, energy |-> 0, energies |-> {}, n |-> 0]

\* No data:update tuple.
NoStreamData ==
  [shift |-> "", power |-> 0, soc |-> 0, est |-> 0, speed |-> 0, heading |-> 0]

\* VehicleState as NewMachine leaves it: zero values, Speed nil.
VehicleStateIdle ==
  [vs |-> [BatteryLevel |-> 0, LatLng |-> 0, Speed |-> Null, Power |-> 0, Heading |-> 0],
   data |-> NoStreamData, fields |-> 0, handled |-> FALSE]

\* The poll loop between two ticks.
PollIdle ==
  [pos |-> "idle", light |-> FALSE, listing |-> "none",
   resp |-> [kind |-> "none", state |-> "", shift |-> "", charging |-> FALSE,
             conds |-> {}],
   requested |-> FALSE]

\* Calls of VehicleService.Start in a run.
MaxStarts == 2

\* main serving requests, the service not started (no token on file).
LifeIdle ==
  [main |-> "serving", running |-> FALSE, stopCh |-> "open",
   sync |-> FALSE, loops |-> [k \in 1..MaxStarts |-> "none"], ctx |-> "nil",
   client |-> FALSE, task |-> "none"]

InitAuxIdle ==
  /\ gate = GateIdle
  /\ stream = StreamIdle
  /\ hub = HubIdle
  /\ plog = ParkingLogIdle
  /\ chg = ChargeIdle
  /\ vstate = VehicleStateIdle
  /\ poll = PollIdle
  /\ life = LifeIdle

vars == <<varsMachine, varsService, varsAux>>

Absent == -1

Max2(a, b) == IF a >= b THEN a ELSE b
Min2(a, b) == IF a <= b THEN a ELSE b

\* No interval the scheduler can hold exceeds AgeCap.
AgeCap ==
  Max2(SuspendPollInterval, Max2(PollBackoffMax, Max2(PollIntervalOnline,
    Max2(PollIntervalCharging, Max2(PollIntervalDriving, PollBackoffInitial)))))

\* time.Time{} : time.Since of it exceeds every interval.
ZeroTime == AgeCap

\* One base tick of pollLoop passes.
Older(age, cap) == IF age = Absent THEN Absent ELSE Min2(age + PollBackoffInitial, cap)

\* config.RequireNotUnlocked (REQUIRE_NOT_UNLOCKED, default false)
RequireNotUnlocked == FALSE

\* ---- inputs -------------------------------------------------------------
\* GetVehicle / ListVehicles: the state of the listing, or an error.
ListingStates == {"online", "asleep", "offline"}
ListingResults == ListingStates \cup {"error"}

\* drive_state.shift_state of a snapshot: "nodrive" is a missing drive_state.
ShiftStates == {"nodrive", "P", "D"}

\* The sleep-relevant conditions of a snapshot (see canFallAsleep).
SnapshotConds == {{}, {"unlocked"}, {"sentry_mode", "power_usage"}}

NoResp == [kind |-> "none", state |-> "", shift |-> "", charging |-> FALSE, conds |-> {}]

\* GetVehicleData: ErrVehicleUnavailable (408), another error, or a snapshot;
\* a snapshot of a car that is not online carries no sub-objects.
DataResponses ==
  { [kind |-> "unavailable", state |-> "", shift |-> "", charging |-> FALSE, conds |-> {}],
    [kind |-> "error", state |-> "", shift |-> "", charging |-> FALSE, conds |-> {}] }
  \cup
  [kind : {"data"}, state : {"asleep", "offline"}, shift : {"nodrive"},
   charging : {FALSE}, conds : {{}}]
  \cup
  [kind : {"data"}, state : {"online"}, shift : ShiftStates,
   charging : BOOLEAN, conds : SnapshotConds]

\* A parsed data:update tuple: shift_state, sign of power, est_lat/est_lng set.
StreamTuples == [shift : {"", "D"}, power : {-1, 0, 1}, latlng : BOOLEAN]

\* ---- the service state as one value -------------------------------------
NoPosition == [src |-> "none", drive_id |-> 0, state |-> "", open |-> 0]

Cur ==
  [fsm |-> fsm, pollIntervals |-> pollIntervals, lastPollTimes |-> lastPollTimes,
   lastUsedTimes |-> lastUsedTimes, LastUsed |-> LastUsed, drives |-> drives,
   charges |-> charges,
   parkings |-> parkings, lastPosition |-> NoPosition, streamJobs |-> streamJobs,
   fired |-> <<>>, calls |-> <<>>, err |-> FALSE]

\* machine.Trigger(event) on the car's machine; an illegal event is an error
\* and changes nothing.
Fire(r, e) ==
  IF CanTransition(r.fsm, e)
    THEN [r EXCEPT !.fsm = Destination(r.fsm, e), !.fired = Append(@, e)]
    ELSE r

\* ---- repositories -------------------------------------------------------
\* INSERT ... RETURNING id
Create(rows) == Append(rows, "open")

\* GetActiveDrive / GetActiveProcess / GetActiveParking:
\* WHERE end_time IS NULL ORDER BY start_time DESC LIMIT 1 (0: no rows).
GetActive(rows) ==
  IF \E i \in DOMAIN rows : rows[i] = "open"
    THEN CHOOSE i \in DOMAIN rows :
           /\ rows[i] = "open"
           /\ \A j \in DOMAIN rows : rows[j] = "open" => j <= i
    ELSE 0

\* Complete / CompleteProcess: UPDATE ... SET end_time = ... WHERE id = $n.
\* The statement does not look at end_time: a row that was closed already
\* has its end_time and aggregates written again.
Complete(rows, id) ==
  [rows EXCEPT ![id] = IF @ = "open" THEN "closed" ELSE "rewritten"]

\* ForceCloseOpenParkings: UPDATE ... WHERE car_id = $2 AND end_time IS NULL
ForceCloseOpenParkings(rows) ==
  [i \in DOMAIN rows |-> IF rows[i] = "open" THEN "closed" ELSE rows[i]]

OpenCount(rows) == Cardinality({i \in DOMAIN rows : rows[i] = "open"})

\* ---- session segmenter --------------------------------------------------
startDrive(r) == [r EXCEPT !.drives = Create(@)]

\* endDrive that completes the latest drive of the car, open or not.
endDriveLatest(r) ==
  IF r.drives = <<>> THEN r
  ELSE [r EXCEPT !.drives = Complete(@, Len(@))]

\* endDrive: GetActiveDrive fails when no drive is open and nothing is
\* written.
endDrive(r) ==
  IF GetActive(r.drives) = 0 THEN r
  ELSE [r EXCEPT !.drives = Complete(@, GetActive(r.drives))]

startCharging(r) == [r EXCEPT !.charges = Create(@)]

endCharging(r) ==
  IF GetActive(r.charges) = 0 THEN r
  ELSE [r EXCEPT !.charges = Complete(@, GetActive(r.charges))]

startParking(r) == [r EXCEPT !.parkings = Create(ForceCloseOpenParkings(@))]

endParking(r) ==
  IF GetActive(r.parkings) = 0 THEN r
  ELSE [r EXCEPT !.parkings = Complete(@, GetActive(r.parkings))]

\* ---- scheduler ----------------------------------------------------------
\* shouldPollVehicle: due on the first poll, else when time.Since(lastPoll)
\* has reached the interval.
shouldPollVehicle(r) ==
  IF r.pollIntervals = Absent \/ r.lastPollTimes = Absent
    THEN TRUE
    ELSE r.lastPollTimes >= r.pollIntervals

\* calculateBackoffInterval without the cap at PollBackoffMax.
calculateBackoffIntervalNoCap(r) ==
  IF r.pollIntervals = Absent \/ r.pollIntervals < PollBackoffInitial
    THEN PollBackoffInitial
    ELSE r.pollIntervals * PollBackoffFactor

\* calculateBackoffInterval (reads the interval, writes nothing).
calculateBackoffInterval(r) ==
  IF r.pollIntervals = Absent \/ r.pollIntervals < PollBackoffInitial
    THEN PollBackoffInitial
    ELSE Min2(r.pollIntervals * PollBackoffFactor, PollBackoffMax)

\* applyBackoff, called when a poll of the tick returned an error.
applyBackoff(r) ==
  LET currentInterval ==
        IF r.pollIntervals = Absent \/ r.pollIntervals < PollBackoffInitial
          THEN PollBackoffInitial ELSE r.pollIntervals
  IN [r EXCEPT !.pollIntervals =
        Min2(currentInterval * PollBackoffFactor, PollBackoffMax)]

\* resetBackoff
resetBackoff(r) == [r EXCEPT !.pollIntervals = PollBackoffInitial]

\* updateNextPollTime without the case of suspended.
updateNextPollTimeNoSuspended(r) ==
  LET newInterval ==
        CASE r.fsm = "driving" -> PollIntervalDriving
          [] r.fsm = "charging" -> PollIntervalCharging
          [] r.fsm \in {"asleep", "offline"} -> calculateBackoffInterval(r)
          [] OTHER -> PollIntervalOnline
  IN [r EXCEPT !.pollIntervals = newInterval, !.lastPollTimes = 0]

\* updateNextPollTime(carID, now): the interval of the machine's state, and
\* lastPollTimes[carID] = now.
updateNextPollTime(r) ==
  LET newInterval ==
        CASE r.fsm = "driving" -> PollIntervalDriving
          [] r.fsm = "charging" -> PollIntervalCharging
          [] r.fsm = "suspended" -> SuspendPollInterval
          [] r.fsm \in {"asleep", "offline"} -> calculateBackoffInterval(r)
          [] OTHER -> PollIntervalOnline
  IN [r EXCEPT !.pollIntervals = newInterval, !.lastPollTimes = 0]

\* triggerImmediatePoll that leaves the interval as it is.
triggerImmediatePollKeepInterval(r) ==
  [r EXCEPT !.lastPollTimes = ZeroTime]

\* triggerImmediatePoll: interval 0 and the zero time as last poll.
triggerImmediatePoll(r) ==
  [r EXCEPT !.pollIntervals = 0, !.lastPollTimes = ZeroTime]

\* markVehicleActive: lastUsedTimes[carID] = time.Now()
markVehicleActive(r) == [r EXCEPT !.lastUsedTimes = 0]

\* ---- sleep gate ---------------------------------------------------------
\* canFallAsleep with climate_on tested before preconditioning and
\* power_usage before the lock.
canFallAsleepCfgReordered(conds, requireNotUnlocked) ==
  CASE "user_present" \in conds -> "user_present"
    [] "sentry_mode" \in conds -> "sentry_mode"
    [] "climate_on" \in conds -> "climate_on"
    [] "preconditioning" \in conds -> "preconditioning"
    [] "doors_open" \in conds -> "doors_open"
    [] "trunk_open" \in conds -> "trunk_open"
    [] "frunk_open" \in conds -> "frunk_open"
    [] "windows_open" \in conds -> "windows_open"
    [] "power_usage" \in conds -> "power_usage"
    [] requireNotUnlocked /\ "unlocked" \in conds -> "unlocked"
    [] "downloading_update" \in conds -> "downloading_update"
    [] OTHER -> ""

\* canFallAsleep: the first blocking condition in the order of the code, ""
\* when nothing blocks; under either value of cfg.RequireNotUnlocked.
canFallAsleepCfg(conds, requireNotUnlocked) ==
  CASE "user_present" \in conds -> "user_present"
    [] "sentry_mode" \in conds -> "sentry_mode"
    [] "preconditioning" \in conds -> "preconditioning"
    [] "climate_on" \in conds -> "climate_on"
    [] "doors_open" \in conds -> "doors_open"
    [] "trunk_open" \in conds -> "trunk_open"
    [] "frunk_open" \in conds -> "frunk_open"
    [] "windows_open" \in conds -> "windows_open"
    [] requireNotUnlocked /\ "unlocked" \in conds -> "unlocked"
    [] "power_usage" \in conds -> "power_usage"
    [] "downloading_update" \in conds -> "downloading_update"
    [] OTHER -> ""

canFallAsleep(conds) == canFallAsleepCfg(conds, RequireNotUnlocked)

\* The conditions canFallAsleep reads off a snapshot: a flag of the
\* vehicle, climate or drive state, any door, any window, a lock that is
\* open, power above 0, an update downloading below 100 %.
SleepConditions ==
  {"user_present", "sentry_mode", "preconditioning", "climate_on", "doors_open",
   "trunk_open", "frunk_open", "windows_open", "unlocked", "power_usage",
   "downloading_update"}

\* The json fields of state.VehicleState.
VehicleStateFields ==
  {"car_id", "state", "since", "last_used", "battery_level", "range_km",
   "latitude", "longitude", "speed", "power", "inside_temp", "outside_temp",
   "locked", "sentry_mode", "plugged_in", "charging_state", "charger_power",
   "tpms_pressure_fl", "tpms_pressure_fr", "tpms_pressure_rl", "tpms_pressure_rr",
   "odometer_km", "car_version", "heading", "doors_open", "windows_open",
   "frunk_open", "trunk_open", "is_user_present", "is_climate_on",
   "is_preconditioning", "charge_limit_soc", "time_to_full_charge",
   "charger_voltage", "charger_current", "usable_battery_level", "ideal_range_km"}

\* tryToSuspend with the early return of the blocking branch lost.
tryToSuspendNoBlockReturn(r, data) ==
  IF r.fsm # "online" THEN r
  ELSE
    LET idleMinutes == IF r.lastUsedTimes = Absent THEN 0 ELSE r.lastUsedTimes
        r1 == IF canFallAsleep(data.conds) # "" THEN markVehicleActive(r) ELSE r
    IN IF idleMinutes < SuspendAfterIdleMin THEN r1
       ELSE IF CanTransition(r1.fsm, "suspend")
              THEN [Fire(r1, "suspend") EXCEPT !.pollIntervals = SuspendPollInterval]
              ELSE r1

\* tryToSuspend: a missing lastUsedTimes entry counts as used now; a blocking
\* condition marks the car active; otherwise suspend once idle long enough.
tryToSuspend(r, data) ==
  IF r.fsm # "online" THEN r
  ELSE
    LET idleMinutes == IF r.lastUsedTimes = Absent THEN 0 ELSE r.lastUsedTimes
    IN IF canFallAsleep(data.conds) # "" THEN markVehicleActive(r)
       ELSE IF idleMinutes < SuspendAfterIdleMin THEN r
       ELSE IF CanTransition(r.fsm, "suspend")
              THEN [Fire(r, "suspend") EXCEPT !.pollIntervals = SuspendPollInterval]
              ELSE r

\* ---- reconciler: poll path ----------------------------------------------
\* transitionToSleepOrOffline(machine, targetState)
transitionToSleepOrOffline(r, targetState) ==
  IF r.fsm = targetState THEN r
  ELSE LET event == IF targetState = "asleep" THEN "fall_asleep" ELSE "go_offline"
       IN IF CanTransition(r.fsm, event) THEN Fire(r, event) ELSE r

\* handleVehicleStateFromAPI that does not wake the machine up.
handleVehicleStateFromAPINoWake(r, apiState) ==
  CASE apiState = "asleep" -> transitionToSleepOrOffline(r, "asleep")
    [] apiState = "offline" -> transitionToSleepOrOffline(r, "offline")
    [] OTHER -> r

\* handleVehicleStateFromAPI(machine, apiState): a wake-up marks the car
\* active and resets the backoff.
handleVehicleStateFromAPI(r, apiState) ==
  CASE apiState = "asleep" -> transitionToSleepOrOffline(r, "asleep")
    [] apiState = "offline" -> transitionToSleepOrOffline(r, "offline")
    [] apiState = "online" ->
         IF r.fsm \in {"asleep", "offline"} /\ CanTransition(r.fsm, "wake_up")
           THEN resetBackoff(markVehicleActive(Fire(r, "wake_up")))
           ELSE r
    [] OTHER -> r

\* createPosition + posRepo.Create of pollVehicle: the row carries no
\* drive_id.  state and open record the machine state and the open drive of
\* the car at the moment of the insert.
createPosition(r) ==
  [r EXCEPT !.lastPosition =
     [src |-> "poll", drive_id |-> 0, state |-> r.fsm, open |-> GetActive(r.drives)]]

isDriving(data) == data.shift \notin {"nodrive", "", "P"}

isCharging(data) == data.charging

\* handleStateTransitions: currentState is read once, on entry; both halves
\* compare against it while CanTransition asks the machine itself.
handleStateTransitions(r, data) ==
  LET currentState == r.fsm
      r1 == IF isDriving(data) /\ currentState # "driving"
              THEN IF CanTransition(r.fsm, "start_driving")
                     THEN markVehicleActive(startDrive(Fire(r, "start_driving")))
                     ELSE r
              ELSE IF ~isDriving(data) /\ currentState = "driving"
                     THEN endDrive(Fire(r, "stop_driving"))
                     ELSE r
  IN IF isCharging(data) /\ currentState # "charging"
       THEN IF CanTransition(r1.fsm, "start_charging")
              THEN markVehicleActive(startCharging(Fire(r1, "start_charging")))
              ELSE r1
       ELSE IF ~isCharging(data) /\ currentState = "charging"
              THEN endCharging(Fire(r1, "stop_charging"))
              ELSE r1

\* The parking half of the segmenter on the poll path: a Parking is opened on
\* the transition out of driving and closed on the next transition into it.
segmentParking(before, r) ==
  LET new == SubSeq(r.fired, Len(before.fired) + 1, Len(r.fired))
      has(e) == \E i \in DOMAIN new : new[i] = e
  IN IF has("stop_driving") THEN startParking(r)
     ELSE IF has("start_driving") THEN endParking(r)
     ELSE r

\* pollVehicle: one full acquisition.
pollVehicle(r, resp) ==
  LET r0 == [r EXCEPT !.calls = Append(@, "vehicle_data")]
  IN CASE resp.kind = "unavailable" -> transitionToSleepOrOffline(r0, "asleep")
       [] resp.kind = "error" -> [r0 EXCEPT !.err = TRUE]
       [] OTHER ->
            LET r1 == handleVehicleStateFromAPI(r0, resp.state)
                r2 == IF resp.state = "online" /\ resp.shift # "nodrive"
                        THEN createPosition(r1) ELSE r1
                r3 == segmentParking(r2, handleStateTransitions(r2, resp))
            IN IF r3.fsm = "online" THEN tryToSuspend(r3, resp) ELSE r3

\* pollVehicleLightweight: the listing endpoint only, unless it reports online.
pollVehicleLightweight(r, listing, resp) ==
  LET currentState == r.fsm
      r0 == [r EXCEPT !.calls = Append(@, "vehicle")]
  IN CASE listing = "error" -> [r0 EXCEPT !.err = TRUE]
       [] listing = "online" -> pollVehicle(r0, resp)
       [] listing = "asleep" ->
            IF currentState = "suspended"
              THEN IF CanTransition(r0.fsm, "fall_asleep")
                     THEN Fire(r0, "fall_asleep") ELSE r0
              ELSE IF currentState # "asleep"
                     THEN transitionToSleepOrOffline(r0, "asleep") ELSE r0
       [] OTHER ->
            IF currentState = "suspended"
              THEN IF CanTransition(r0.fsm, "go_offline")
                     THEN Fire(r0, "go_offline") ELSE r0
              ELSE IF currentState # "offline"
                     THEN transitionToSleepOrOffline(r0, "offline") ELSE r0

\* The lightweight states without suspended.
LightweightNoSuspended == {"asleep", "offline"}

\* The states polled through the listing endpoint.
Lightweight == {"suspended", "asleep", "offline"}

\* The body of the loop of pollAllVehiclesWithBackoff for a due car.
pollDue(r, listing, resp) ==
  LET r1 == IF r.fsm \in Lightweight
              THEN pollVehicleLightweight(r, listing, resp)
              ELSE pollVehicle(r, resp)
      r2 == IF r1.err THEN applyBackoff(r1) ELSE r1
  IN updateNextPollTime(r2)

\* ---- reconciler: stream path --------------------------------------------
\* handleStreamData up to the spawn of the position goroutine.  currentState
\* is read once, on entry.
handleStreamData(r, data) ==
  LET currentState == r.fsm
      resumed(x) == IF currentState = "suspended" /\ CanTransition(x.fsm, "resume")
                      THEN Fire(x, "resume") ELSE x
  IN IF data.shift \in {"D", "N", "R"}
       THEN LET r1 == resumed(markVehicleActive(r))
                r2 == IF CanTransition(r1.fsm, "start_driving")
                        THEN Fire(r1, "start_driving") ELSE r1
            IN triggerImmediatePoll(r2)
     ELSE IF data.power < 0
       THEN LET r1 == resumed(markVehicleActive(r))
                r2 == IF CanTransition(r1.fsm, "start_charging")
                        THEN Fire(r1, "start_charging") ELSE r1
            IN triggerImmediatePoll(r2)
     ELSE LET r1 == IF data.power > 0 THEN resumed(markVehicleActive(r)) ELSE r
          IN IF currentState = "driving" /\ data.latlng
               THEN [r1 EXCEPT !.streamJobs = @ + 1]
               ELSE r1

\* The goroutine of handleStreamData: without an active drive nothing is
\* written, else the Position is inserted with the drive's id.
persistStreamPosition(r) ==
  LET activeDrive == GetActive(r.drives)
      r1 == [r EXCEPT !.streamJobs = @ - 1]
  IN IF activeDrive = 0 THEN r1
     ELSE [r1 EXCEPT !.lastPosition =
             [src |-> "stream", drive_id |-> activeDrive, state |-> r.fsm,
              open |-> activeDrive]]

\* ---- manual control -----------------------------------------------------
\* SuspendLogging that takes driving, charging and updating for states in
\* which nothing is to be done.
SuspendLoggingNoReject(r) ==
  CASE r.fsm \in {"asleep", "offline", "suspended",
                  "driving", "charging", "updating"} -> r
    [] OTHER ->
         IF ~CanTransition(r.fsm, "suspend") THEN [r EXCEPT !.err = TRUE]
         ELSE [Fire(r, "suspend") EXCEPT !.pollIntervals = SuspendPollInterval]

\* SuspendLogging
SuspendLogging(r) ==
  CASE r.fsm \in {"asleep", "offline", "suspended"} -> r
    [] r.fsm \in {"driving", "charging", "updating"} -> [r EXCEPT !.err = TRUE]
    [] OTHER ->
         IF ~CanTransition(r.fsm, "suspend") THEN [r EXCEPT !.err = TRUE]
         ELSE [Fire(r, "suspend") EXCEPT !.pollIntervals = SuspendPollInterval]

\* ResumeLogging that returns early in asleep and offline as well.
ResumeLoggingNoBump(r) ==
  CASE r.fsm # "suspended" -> r
    [] OTHER ->
         IF ~CanTransition(r.fsm, "resume") THEN [r EXCEPT !.err = TRUE]
         ELSE [Fire(r, "resume") EXCEPT !.pollIntervals = PollIntervalOnline,
                                           !.lastUsedTimes = 0]

\* ResumeLogging
ResumeLogging(r) ==
  CASE r.fsm \in {"online", "driving", "charging", "updating"} -> r
    [] r.fsm = "suspended" ->
         IF ~CanTransition(r.fsm, "resume") THEN [r EXCEPT !.err = TRUE]
         ELSE [Fire(r, "resume") EXCEPT !.pollIntervals = PollIntervalOnline,
                                           !.lastUsedTimes = 0]
    [] OTHER -> [r EXCEPT !.pollIntervals = PollIntervalOnline, !.lastUsedTimes = 0]

\* ---- the operations as actions ------------------------------------------
NoTuple == [shift |-> "", power |-> 0, latlng |-> FALSE]

\* What a client observes of the car before it calls resume: the state and
\* the poll interval.
NoPair == [fsm |-> "", interval |-> Absent]

Fits(r) ==
  /\ Len(r.drives) + Len(r.charges) + Len(r.parkings) <= MaxSessions
  /\ r.streamJobs <= MaxJobs

\* The state r becomes the state of the service; last records the operation.
\* The machine on its own is not involved.
CommitService(r, op, before, due, listing, resp, tuple) ==
  /\ Fits(r)
  /\ fsm' = r.fsm
  /\ pollIntervals' = r.pollIntervals
  /\ lastPollTimes' = r.lastPollTimes
  /\ lastUsedTimes' = r.lastUsedTimes
  /\ LastUsed' = r.LastUsed
  /\ drives' = r.drives
  /\ charges' = r.charges
  /\ parkings' = r.parkings
  /\ lastPosition' = r.lastPosition
  /\ streamJobs' = r.streamJobs
  /\ last' = [op |-> op, pre |-> before.fsm,
              idle |-> before.lastUsedTimes >= SuspendAfterIdleMin,
              noEntry |-> before.lastUsedTimes = Absent,
              old |-> before.LastUsed >= SuspendAfterIdleMin,
              due |-> due, listing |-> listing, kind |-> resp.kind,
              shift |-> IF op = "StreamData" THEN tuple.shift ELSE resp.shift,
              power |-> tuple.power, block |-> canFallAsleep(resp.conds),
              fired |-> r.fired, calls |-> r.calls, err |-> r.err,
              newDrive |-> Len(r.drives) > Len(before.drives),
              closedDrive |-> OpenCount(r.drives) < OpenCount(before.drives),
              pair |-> CASE op = "ResumeLogging" ->
                              [fsm |-> before.fsm, interval |-> before.pollIntervals]
                         [] op = "SuspendLogging" /\ last.op = "ResumeLogging" -> last.pair
                         [] OTHER -> NoPair]

\* An operation of the service: the components are not involved.
Commit(r, op, before, due, listing, resp, tuple) ==
  /\ CommitService(r, op, before, due, listing, resp, tuple)
  /\ UNCHANGED <<varsMachine, varsAux>>

\* NewVehicleService + syncVehicles: empty maps, the machine created in the
\* state of the listing; the database is what it is.
InitService ==
  /\ fsm \in {NewMachine(st) : st \in ListingStates}
  /\ pollIntervals = Absent
  /\ lastPollTimes = Absent
  /\ lastUsedTimes = Absent
  /\ LastUsed = 0
  /\ drives = <<>>
  /\ charges = <<>>
  /\ parkings = <<>>
  /\ lastPosition = NoPosition
  /\ streamJobs = 0
  /\ phase = "boot"
  /\ last = [op |-> "Start", pre |-> "", idle |-> FALSE, noEntry |-> TRUE, old |-> FALSE,
             due |-> FALSE,
             listing |-> "none", kind |-> "none", shift |-> "", power |-> 0,
             block |-> "", fired |-> <<>>, calls |-> <<>>, err |-> FALSE,
             newDrive |-> FALSE, closedDrive |-> FALSE,
             pair |-> NoPair]

\* pollLoop, before the ticker starts: pollAllVehicles polls the car in full
\* and leaves the scheduler maps alone.
BootPoll ==
  /\ phase = "boot"
  /\ \E resp \in DataResponses :
       Commit(pollVehicle(Cur, resp), "BootPoll", Cur, TRUE, "none", resp, NoTuple)
  /\ phase' = "run"

\* One tick of the base ticker: pollAllVehiclesWithBackoff.
PollTick ==
  /\ phase = "run"
  /\ LET now == [Cur EXCEPT !.lastPollTimes = Older(@, AgeCap),
                            !.lastUsedTimes = Older(@, SuspendAfterIdleMin),
                            !.LastUsed = Older(@, SuspendAfterIdleMin)]
     IN IF ~shouldPollVehicle(now)
          THEN Commit(now, "PollTick", now, FALSE, "none", NoResp, NoTuple)
          ELSE \E listing \in ListingResults \cup {"none"}, resp \in DataResponses \cup {NoResp} :
                 /\ (listing # "none") <=> (now.fsm \in Lightweight)
                 /\ (resp # NoResp) <=> (listing \in {"none", "online"})
                 /\ Commit(pollDue(now, listing, resp), "PollTick", now, TRUE,
                           listing, resp, NoTuple)
  /\ UNCHANGED phase

\* The stream client delivers a data:update tuple of the car.
StreamData ==
  /\ \E data \in StreamTuples :
       Commit(handleStreamData(Cur, data), "StreamData", Cur, FALSE, "none", NoResp, data)
  /\ UNCHANGED phase

\* A position goroutine runs.
PersistStreamPosition ==
  /\ streamJobs > 0
  /\ Commit(persistStreamPosition(Cur), "PersistStreamPosition", Cur, FALSE,
            "none", NoResp, NoTuple)
  /\ UNCHANGED phase

\* POST /api/cars/:id/suspend
Suspend ==
  /\ Commit(SuspendLogging(Cur), "SuspendLogging", Cur, FALSE, "none", NoResp, NoTuple)
  /\ UNCHANGED phase

\* POST /api/cars/:id/resume
Resume ==
  /\ Commit(ResumeLogging(Cur), "ResumeLogging", Cur, FALSE, "none", NoResp, NoTuple)
  /\ UNCHANGED phase

\* The process is started again on the same database: main builds a new
\* VehicleService and syncVehicles creates the machine from the listing.
Restart ==
  /\ phase = "run"
  /\ \E st \in ListingStates :
       Commit([Cur EXCEPT !.fsm = NewMachine(st), !.pollIntervals = Absent,
                          !.lastPollTimes = Absent, !.lastUsedTimes = Absent,
                          !.LastUsed = 0, !.streamJobs = 0],
              "Start", Cur, FALSE, st, NoResp, NoTuple)
  /\ phase' = "boot"

\* The service with its car offline and nothing recorded.
InitServiceIdle ==
  /\ InitService
  /\ fsm = NewMachine("")

Init == InitService /\ InitMachineIdle /\ InitAuxIdle

Next ==
  \/ BootPoll
  \/ PollTick
  \/ StreamData
  \/ PersistStreamPosition
  \/ Suspend
  \/ Resume
  \/ Restart

Spec == Init /\ [][Next]_vars

\* ---- a machine on its own ----------------------------------------------
\* NewMachine(carID, initialState, onStateChange) for any initial state.
InitMachine ==
  /\ mState \in {NewMachine(st) : st \in States \cup {""}}
  /\ mSince = 0
  /\ mNow = 0
  /\ mLast = [from |-> "", event |-> "", ok |-> FALSE, to |-> ""]
  /\ mCallback = <<>>
  /\ InitServiceIdle
  /\ InitAuxIdle

NextMachine ==
  \/ \E e \in EventNames : Trigger(e) /\ UNCHANGED <<varsService, varsAux>>
  \/ ClockTick /\ UNCHANGED <<varsService, varsAux>>

SpecMachine == InitMachine /\ [][NextMachine]_vars

\* ---- the manual controls on their own ----------------------------------
\* The car in any state of the machine, with an interval the scheduler sets
\* in that state (or 0 after triggerImmediatePoll) and any idle time.
IntervalsOf(st) ==
  CASE st = "online" -> {Absent, 0, PollIntervalOnline}
    [] st = "updating" -> {0, PollIntervalOnline}
    [] st = "driving" -> {0, PollIntervalDriving}
    [] st = "charging" -> {0, PollIntervalCharging}
    [] st = "suspended" -> {0, SuspendPollInterval}
    [] OTHER -> {Absent, 0} \cup (PollBackoffInitial..PollBackoffMax)

InitControl ==
  /\ fsm \in States
  /\ pollIntervals \in IntervalsOf(fsm)
  /\ lastPollTimes = 0
  /\ lastUsedTimes \in {Absent} \cup (0..SuspendAfterIdleMin)
  /\ LastUsed = 0
  /\ drives = <<>>
  /\ charges = <<>>
  /\ parkings = <<>>
  /\ lastPosition = NoPosition
  /\ streamJobs = 0
  /\ phase = "run"
  /\ last = [op |-> "Start", pre |-> "", idle |-> FALSE, noEntry |-> TRUE, old |-> FALSE,
             due |-> FALSE,
             listing |-> "none", kind |-> "none", shift |-> "", power |-> 0,
             block |-> "", fired |-> <<>>, calls |-> <<>>, err |-> FALSE,
             newDrive |-> FALSE, closedDrive |-> FALSE,
             pair |-> NoPair]
  /\ InitMachineIdle
  /\ InitAuxIdle

NextControl ==
  \/ Suspend
  \/ Resume

SpecControl == InitControl /\ [][NextControl]_vars

\* ---- the sleep gate on its own ------------------------------------------
\* A snapshot with any combination of the conditions, under either
\* configuration.
InitGate ==
  /\ gate \in [conds : SUBSET SleepConditions, require : BOOLEAN,
               reason : {""}, evaluated : {FALSE}]
  /\ stream = StreamIdle
  /\ hub = HubIdle
  /\ plog = ParkingLogIdle
  /\ chg = ChargeIdle
  /\ vstate = VehicleStateIdle
  /\ poll = PollIdle
  /\ life = LifeIdle
  /\ InitMachineIdle
  /\ InitServiceIdle

\* blockReason := s.canFallAsleep(data)
Evaluate ==
  /\ ~gate.evaluated
  /\ gate' = [gate EXCEPT !.reason = canFallAsleepCfg(gate.conds, gate.require),
                          !.evaluated = TRUE]
  /\ UNCHANGED <<varsMachine, varsService, stream, hub, plog, chg, vstate, poll, life>>

NextGate == Evaluate

SpecGate == InitGate /\ [][NextGate]_vars

\* ---- the streaming client on its own -------------------------------------
\* The frames the server sends: the message type, the error type and the
\* words of the value.
StreamMessages ==
  {[msg_type |-> "data:update", error_type |-> "", value |-> <<"ts", "speed">>],
   [msg_type |-> "control:hello", error_type |-> "", value |-> <<>>],
   [msg_type |-> "data:error", error_type |-> "vehicle_error",
    value |-> <<"Vehicle", "is", "offline">>],
   [msg_type |-> "data:error", error_type |-> "vehicle_error", value |-> <<"timeout">>],
   [msg_type |-> "data:error", error_type |-> "vehicle_disconnected", value |-> <<>>],
   [msg_type |-> "data:error", error_type |-> "client_error", value |-> <<"offline">>]}

\* strings.Contains(data.Value, word)
Contains(value, word) == \E i \in DOMAIN value : value[i] = word

\* triggerReconnect: a send that does not block on a channel of capacity 1.
triggerReconnect(c) == [c EXCEPT !.reconnectCh = 1]

\* Close
Close(c) ==
  IF ~c.connected THEN c
  ELSE [c EXCEPT !.connected = FALSE, !.stopClosed = TRUE, !.connOpen = FALSE]

\* handleMessage
handleMessage(c, data) ==
  CASE data.msg_type = "data:error" /\ data.error_type = "vehicle_error"
         /\ Contains(data.value, "offline") ->
         [c EXCEPT !.vehicleOffline = TRUE, !.notified = TRUE]
    [] data.msg_type = "data:error"
         /\ data.error_type \in {"vehicle_disconnected", "vehicle_error"} ->
         triggerReconnect(c)
    [] OTHER -> c

\* The deferred function of readLoop.
readLoopExit(c, i) ==
  LET c1 == [c EXCEPT !.connected = FALSE, !.readers[i] = NoReader]
  IN IF c.connected THEN triggerReconnect(c1) ELSE c1

SetStream(c) ==
  /\ stream' = c
  /\ UNCHANGED <<varsMachine, varsService, gate, hub, plog, chg, vstate, poll, life>>

\* startStreaming: a new client, StartWithReconnect starts the goroutine.
InitStream ==
  /\ stream = [StreamIdle EXCEPT !.loop = "top"]
  /\ gate = GateIdle
  /\ hub = HubIdle
  /\ plog = ParkingLogIdle
  /\ chg = ChargeIdle
  /\ vstate = VehicleStateIdle
  /\ poll = PollIdle
  /\ life = LifeIdle
  /\ InitMachineIdle
  /\ InitServiceIdle

\* The reconnect goroutine at the head of its loop: it returns when stopCh
\* is closed or the car is marked offline.
LoopCheck ==
  /\ stream.loop = "top"
  /\ SetStream([stream EXCEPT !.loop = IF stream.stopClosed \/ stream.vehicleOffline
                                         THEN "done" ELSE "checked"])

\* Connect: nothing when connected; else the dial fails, or the subscription
\* fails and the connection is closed, or readLoop is started.
LoopConnect ==
  /\ stream.loop = "checked"
  /\ IF stream.connected
       THEN SetStream([stream EXCEPT !.loop = "wait"])
       ELSE LET c == [stream EXCEPT !.dialedOffline = @ \/ stream.vehicleOffline]
            IN \/ SetStream([c EXCEPT !.loop = "backoff"])
               \/ SetStream([Close([c EXCEPT !.connected = TRUE, !.connOpen = TRUE,
                                             !.currentDelay = ReconnectDelay])
                               EXCEPT !.loop = "backoff"])
               \/ \E i \in 1..MaxReaders :
                    /\ stream.readers[i].pos = "none"
                    /\ SetStream([c EXCEPT !.connected = TRUE, !.connOpen = TRUE,
                                           !.currentDelay = ReconnectDelay,
                                           !.loop = "wait",
                                           !.readers[i] = [pos |-> "read", msg |-> NoMsg]])

\* After a failed Connect: return when stopCh is closed, else wait
\* currentDelay and double it up to the maximum.
LoopBackoff ==
  /\ stream.loop = "backoff"
  /\ IF stream.stopClosed
       THEN SetStream([stream EXCEPT !.loop = "done"])
       ELSE SetStream([stream EXCEPT !.loop = "top",
                                     !.currentDelay = Min2(2 * @, MaxReconnectDelay)])

\* Connected: return when stopCh is closed; on a reconnect request close the
\* connection, and return if the car is marked offline, else make a new
\* stopCh and go round.
LoopWait ==
  /\ stream.loop = "wait"
  /\ \/ /\ stream.stopClosed
        /\ SetStream([stream EXCEPT !.loop = "done"])
     \/ /\ stream.reconnectCh = 1
        /\ LET c == Close([stream EXCEPT !.reconnectCh = 0])
           IN IF stream.vehicleOffline
                THEN SetStream([c EXCEPT !.loop = "done"])
                ELSE SetStream([c EXCEPT !.loop = "top", !.stopClosed = FALSE])

\* readLoop at conn.ReadMessage: a frame arrives, or the read fails (always
\* so once the connection is closed) and readLoop returns.
ReaderRead ==
  \E i \in 1..MaxReaders :
    /\ stream.readers[i].pos = "read"
    /\ \/ /\ stream.connOpen
          /\ ~stream.stopClosed
          /\ \E data \in StreamMessages :
               SetStream([stream EXCEPT !.readers[i] = [pos |-> "got", msg |-> data]])
       \/ SetStream(readLoopExit([stream EXCEPT !.connOpen = FALSE], i))

\* readLoop hands the frame it read to handleMessage.
ReaderHandle ==
  \E i \in 1..MaxReaders :
    /\ stream.readers[i].pos = "got"
    /\ SetStream([handleMessage(stream, stream.readers[i].msg)
                    EXCEPT !.readers[i] = [pos |-> "read", msg |-> NoMsg]])

\* restartStreamingIfNeeded: the listing shows the car online again and the
\* client is marked offline.  (Taken once the old goroutine has returned.)
ResetAndRestart ==
  /\ stream.vehicleOffline
  /\ stream.loop = "done"
  /\ SetStream([stream EXCEPT !.vehicleOffline = FALSE, !.notified = FALSE,
                              !.currentDelay = ReconnectDelay,
                              !.stopClosed = FALSE, !.loop = "top"])

NextStream ==
  \/ LoopCheck
  \/ LoopConnect
  \/ LoopBackoff
  \/ LoopWait
  \/ ReaderRead
  \/ ReaderHandle
  \/ ResetAndRestart

SpecStream == InitStream /\ [][NextStream]_vars

\* The goroutines of the client are scheduled: the reconnect loop and the
\* read loops take their next step when they can.  What the server sends and
\* whether the poll loop restarts the client is up to the environment.
SpecStreamLive ==
  /\ SpecStream
  /\ WF_vars(LoopCheck) /\ WF_vars(LoopConnect) /\ WF_vars(LoopBackoff)
  /\ WF_vars(LoopWait) /\ WF_vars(ReaderRead) /\ WF_vars(ReaderHandle)

\* ---- the hub on its own --------------------------------------------------
\* A send that does not block (select with default) on a channel of
\* capacity cap: TRUE when the frame was taken.
TrySend(ch, cap) == Len(ch) < cap

\* sendInitData: nothing when the provider returns nil (GetCars failed) or
\* the buffer is full, else the init frame with the cars and the states.
sendInitData(h, client, provided) ==
  IF provided /\ TrySend(h.send[client], SendBuffer)
    THEN LET data == [type |-> "init", cars |-> TRUE, states |-> h.version]
         IN [h EXCEPT !.send[client] = Append(@, data),
                      !.first[client] = IF @ = NoFrame THEN data ELSE @,
                      !.late = IF h.closes[client] > 0 THEN @ \cup {client} ELSE @]
    ELSE h

\* Hub.Run, case message := <-h.broadcast: every client gets the frame, and a
\* client whose buffer is full has its channel closed and is deleted.
RECURSIVE deliver(_, _, _)
deliver(h, todo, message) ==
  IF todo = {} THEN h
  ELSE LET client == CHOOSE c \in todo : TRUE
           h1 == IF TrySend(h.send[client], SendBuffer)
                   THEN [h EXCEPT !.send[client] = Append(@, message),
                                  !.first[client] = IF @ = NoFrame THEN message ELSE @,
                                  !.late = IF h.closes[client] > 0 THEN @ \cup {client} ELSE @]
                   ELSE [h EXCEPT !.conn[client] = "closed",
                                  !.closes[client] = @ + 1,
                                  !.clients = @ \ {client},
                                  !.overflowed = @ \cup {client}]
       IN deliver(h1, todo \ {client}, message)

\* notifySubscribers: the channel of Subscribe gets the state unless it is
\* full.
notifySubscribers(h, vs) ==
  IF TrySend(h.subs, SubscriberBuffer)
    THEN [h EXCEPT !.subs = Append(@, vs), !.skipped = FALSE]
    ELSE [h EXCEPT !.skipped = TRUE]

SetHub(h) ==
  /\ hub' = h
  /\ UNCHANGED <<varsMachine, varsService, gate, stream, plog, chg, vstate, poll, life>>

\* main: NewHub, go Run, SetInitDataProvider; one channel from Subscribe.
InitHub ==
  /\ hub = HubIdle
  /\ gate = GateIdle
  /\ stream = StreamIdle
  /\ plog = ParkingLogIdle
  /\ chg = ChargeIdle
  /\ vstate = VehicleStateIdle
  /\ poll = PollIdle
  /\ life = LifeIdle
  /\ InitMachineIdle
  /\ InitServiceIdle

\* HandleWebSocket: NewClient and Register; Run adds the client and sends
\* the initial data.
Register ==
  \E client \in 1..MaxClients, provided \in BOOLEAN :
    /\ hub.conn[client] = "none"
    /\ SetHub(sendInitData([hub EXCEPT !.clients = @ \cup {client},
                                       !.conn[client] = "open",
                                       !.joined[client] = hub.version],
                           client, provided))

\* Run closing the channel of every client that unregisters.
UnregisterUnchecked ==
  \E client \in 1..MaxClients :
    /\ hub.conn[client] # "none"
    /\ client \notin hub.gone
    /\ SetHub([hub EXCEPT !.clients = @ \ {client}, !.conn[client] = "closed",
                          !.closes[client] = @ + 1, !.gone = @ \cup {client}])

\* ReadPump ends (once per client) and unregisters: Run deletes the client
\* and closes its channel if it is still registered, and does nothing for a
\* client the broadcast case has removed already.
Unregister ==
  \E client \in 1..MaxClients :
    /\ hub.conn[client] # "none"
    /\ client \notin hub.gone
    /\ SetHub(IF client \in hub.clients
                THEN [hub EXCEPT !.clients = @ \ {client}, !.conn[client] = "closed",
                                 !.closes[client] = @ + 1, !.gone = @ \cup {client}]
                ELSE [hub EXCEPT !.gone = @ \cup {client}])

\* updateState: the state changed; notifySubscribers, then broadcastState
\* puts a state_update frame on the broadcast channel (waiting for room).
Publish ==
  /\ hub.version < MaxVersion
  /\ Len(hub.broadcast) < BroadcastBuffer
  /\ LET vs == hub.version + 1
         h == notifySubscribers([hub EXCEPT !.version = vs], vs)
     IN SetHub([h EXCEPT !.broadcast =
                  Append(@, [type |-> "state_update", cars |-> FALSE, states |-> vs])])

\* Run takes a frame off the broadcast channel.
RunBroadcast ==
  /\ hub.broadcast # <<>>
  /\ SetHub(deliver([hub EXCEPT !.broadcast = Tail(@), !.overflowed = {}],
                    hub.clients, Head(hub.broadcast)))

\* WritePump writes the next frame of a client to its connection.
WritePump ==
  \E client \in 1..MaxClients :
    /\ hub.send[client] # <<>>
    /\ SetHub([hub EXCEPT !.send[client] = Tail(@)])

\* The holder of the channel of Subscribe takes a state.
SubscriberRead ==
  /\ hub.subs # <<>>
  /\ SetHub([hub EXCEPT !.subs = Tail(@)])

NextHub ==
  \/ Register
  \/ Unregister
  \/ Publish
  \/ RunBroadcast
  \/ WritePump
  \/ SubscriberRead

SpecHub == InitHub /\ [][NextHub]_vars

\* ---- the event log of a parking on its own -------------------------------
\* The snapshots of a parked car: whether vehicle_state and climate_state
\* are there, and the flags that are set in them.
ParkingSamples ==
  {[vehicle_state |-> TRUE, climate_state |-> TRUE, on |-> {"Locked"}],
   [vehicle_state |-> TRUE, climate_state |-> TRUE, on |-> {"DoorsOpen"}],
   [vehicle_state |-> TRUE, climate_state |-> TRUE, on |-> {"Locked", "SentryMode"}],
   [vehicle_state |-> TRUE, climate_state |-> TRUE,
    on |-> {"DoorsOpen", "IsUserPresent", "IsClimateOn"}],
   [vehicle_state |-> TRUE, climate_state |-> FALSE,
    on |-> {"Locked", "TrunkOpen", "FrunkOpen", "WindowsOpen", "IsClimateOn"}],
   [vehicle_state |-> FALSE, climate_state |-> TRUE, on |-> {"Locked", "IsClimateOn"}]}

\* extractParkingState: the flags of vehicle_state and of climate_state, each
\* false when its part of the snapshot is missing.
extractParkingState(data) ==
  (IF data.vehicle_state
     THEN data.on \cap {"DoorsOpen", "WindowsOpen", "TrunkOpen", "FrunkOpen",
                        "Locked", "SentryMode", "IsUserPresent"}
     ELSE {})
  \cup (IF data.climate_state THEN data.on \cap {"IsClimateOn"} ELSE {})

\* One flag of detectAndRecordEvents: the event of a rising edge, of a
\* falling edge, or none.
edge(prev, curr, flag, risen, fallen) ==
  IF flag \notin prev /\ flag \in curr THEN <<risen>>
  ELSE IF flag \in prev /\ flag \notin curr THEN <<fallen>>
  ELSE <<>>

\* detectAndRecordEvents, prev known: the events recorded, in the order of
\* the code.
recordedEvents(prev, curr) ==
  edge(prev, curr, "DoorsOpen", "doors_opened", "doors_closed")
  \o edge(prev, curr, "WindowsOpen", "windows_opened", "windows_closed")
  \o edge(prev, curr, "TrunkOpen", "trunk_opened", "trunk_closed")
  \o edge(prev, curr, "FrunkOpen", "frunk_opened", "frunk_closed")
  \o edge(prev, curr, "Locked", "locked", "unlocked")
  \o edge(prev, curr, "SentryMode", "sentry_enabled", "sentry_disabled")
  \o edge(prev, curr, "IsClimateOn", "climate_on", "climate_off")
  \o edge(prev, curr, "IsUserPresent", "user_present", "user_left")

\* detectAndRecordEvents: without a previous state the state is only
\* stored; else the events of the edges are recorded and the state stored.
detectAndRecordEvents(p, data) ==
  LET curr == extractParkingState(data)
  IN IF ~p.prev.known
       THEN [p EXCEPT !.prev = [known |-> TRUE, flags |-> curr]]
       ELSE [p EXCEPT !.events = @ \o recordedEvents(p.prev.flags, curr),
                      !.times = @ \o [i \in 1..Len(recordedEvents(p.prev.flags, curr))
                                        |-> p.n],
                      !.prev = [known |-> TRUE, flags |-> curr]]

\* ListEventsByParkingID: the events of the parking ORDER BY event_time ASC.
\* The events of one call of detectAndRecordEvents carry the same time (now
\* is read once), and rows of equal event_time come in any order.
ListEventsByParkingID(p) ==
  {[i \in DOMAIN p.events |-> p.events[perm[i]]] :
     perm \in {q \in Permutations(DOMAIN p.events) :
                 \A i, j \in DOMAIN p.events :
                   i < j => p.times[q[i]] <= p.times[q[j]]}}

\* For reference: the flags that differ between two samples, as events, flag
\* by flag in the order of the struct.
ParkingFlags ==
  <<[flag |-> "DoorsOpen", up |-> "doors_opened", down |-> "doors_closed"],
    [flag |-> "WindowsOpen", up |-> "windows_opened", down |-> "windows_closed"],
    [flag |-> "TrunkOpen", up |-> "trunk_opened", down |-> "trunk_closed"],
    [flag |-> "FrunkOpen", up |-> "frunk_opened", down |-> "frunk_closed"],
    [flag |-> "Locked", up |-> "locked", down |-> "unlocked"],
    [flag |-> "SentryMode", up |-> "sentry_enabled", down |-> "sentry_disabled"],
    [flag |-> "IsClimateOn", up |-> "climate_on", down |-> "climate_off"],
    [flag |-> "IsUserPresent", up |-> "user_present", down |-> "user_left"]>>

RECURSIVE observedEdges(_, _, _)
observedEdges(from, to, i) ==
  IF i > Len(ParkingFlags) THEN <<>>
  ELSE LET f == ParkingFlags[i]
       IN (IF f.flag \in to \ from THEN <<f.up>>
           ELSE IF f.flag \in from \ to THEN <<f.down>>
           ELSE <<>>) \o observedEdges(from, to, i + 1)

\* The flags after the events of a log, from the flags at its start.
RECURSIVE replay(_, _)
replay(flags, events) ==
  IF events = <<>> THEN flags
  ELSE LET f == CHOOSE g \in {ParkingFlags[i] : i \in DOMAIN ParkingFlags} :
                  Head(events) \in {g.up, g.down}
       IN replay(IF Head(events) = f.up THEN flags \cup {f.flag} ELSE flags \ {f.flag},
                 Tail(events))

SetParkingLog(p) ==
  /\ plog' = p
  /\ UNCHANGED <<varsMachine, varsService, gate, stream, hub, chg, vstate, poll, life>>

\* The service running, no parking open.
InitParkingLog ==
  /\ plog = ParkingLogIdle
  /\ chg = ChargeIdle
  /\ vstate = VehicleStateIdle
  /\ poll = PollIdle
  /\ life = LifeIdle
  /\ gate = GateIdle
  /\ stream = StreamIdle
  /\ hub = HubIdle
  /\ InitMachineIdle
  /\ InitServiceIdle

\* startParking: the row is created with the flags of the snapshot and
\* parkingPrevStates is set from the same snapshot.
StartParking ==
  \E data \in ParkingSamples :
    /\ ~plog.open
    /\ SetParkingLog([open |-> TRUE, start |-> extractParkingState(data),
                      prev |-> [known |-> TRUE, flags |-> extractParkingState(data)],
                      events |-> <<>>, times |-> <<>>, listed |-> <<>>,
                      sample |-> extractParkingState(data),
                      edges |-> <<>>, n |-> 1, restarted |-> FALSE])

\* updateParkingStats on a snapshot polled while the parking is open.
UpdateParkingStats ==
  \E data \in ParkingSamples :
    /\ plog.open
    /\ plog.n < MaxSamples
    /\ SetParkingLog([detectAndRecordEvents(plog, data)
                        EXCEPT !.listed = <<>>,
                               !.sample = extractParkingState(data),
                               !.edges = @ \o observedEdges(plog.sample,
                                                            extractParkingState(data), 1),
                               !.n = @ + 1])

\* GET /api/parkings/:id/events: the events of the parking are listed.
ListEvents ==
  /\ plog.open
  /\ plog.events # <<>>
  /\ Len(plog.events) <= MaxListed
  /\ \E listing \in ListEventsByParkingID(plog) :
       SetParkingLog([plog EXCEPT !.listed = listing])

\* endParking: the row is completed and the entry of parkingPrevStates
\* deleted.
EndParking ==
  /\ plog.open
  /\ SetParkingLog(ParkingLogIdle)

\* The process is started again while the parking is open: the row and its
\* events are in the database, parkingPrevStates is empty.
RestartParked ==
  /\ plog.open
  /\ ~plog.restarted
  /\ SetParkingLog([plog EXCEPT !.prev = NoPrevState, !.restarted = TRUE])

NextParkingLog ==
  \/ StartParking
  \/ UpdateParkingStats
  \/ ListEvents
  \/ EndParking
  \/ RestartParked

SpecParkingLog == InitParkingLog /\ [][NextParkingLog]_vars

\* ---- the poll loop and the streaming client --------------------------------
\* One tick of the poll loop next to the client's goroutines.  The car is
\* listed in any state and, when asked for data, answers as an online, parked
\* and locked car.  handleVehicleStateFromAPI calls restartStreamingIfNeeded
\* right after a wake_up, and that calls ResetAndRestart when the client is
\* marked offline.  (The restart is taken once the old goroutine has
\* returned.)
PollObserve ==
  /\ LET now == [Cur EXCEPT !.lastPollTimes = Older(@, AgeCap),
                            !.lastUsedTimes = Older(@, SuspendAfterIdleMin),
                            !.LastUsed = Older(@, SuspendAfterIdleMin)]
     IN IF ~shouldPollVehicle(now)
          THEN /\ CommitService(now, "PollTick", now, FALSE, "none", NoResp, NoTuple)
               /\ UNCHANGED stream
          ELSE \E listing \in ListingStates \cup {"none"}, resp \in DataResponses \cup {NoResp} :
                 /\ (listing # "none") <=> (now.fsm \in Lightweight)
                 /\ (resp # NoResp) <=> (listing \in {"none", "online"})
                 /\ resp # NoResp =>
                       (resp.kind = "data" /\ resp.state = "online" /\ resp.shift = "P"
                        /\ ~resp.charging /\ resp.conds = {})
                 /\ CommitService(pollDue(now, listing, resp), "PollTick", now, TRUE,
                                  listing, resp, NoTuple)
                 /\ IF (\E i \in DOMAIN last'.fired : last'.fired[i] = "wake_up")
                       /\ stream.vehicleOffline
                            THEN /\ stream.loop = "done"
                                 /\ stream' = [stream EXCEPT !.vehicleOffline = FALSE,
                                                             !.notified = FALSE,
                                                             !.currentDelay = ReconnectDelay,
                                                             !.stopClosed = FALSE,
                                                             !.loop = "top"]
                            ELSE UNCHANGED stream
  /\ UNCHANGED phase
  /\ UNCHANGED <<varsMachine, gate, hub, plog, chg, vstate, poll, life>>

NextRestart ==
  \/ PollObserve
  \/ LoopCheck
  \/ LoopConnect
  \/ LoopBackoff
  \/ LoopWait
  \/ ReaderRead
  \/ ReaderHandle

SpecRestart == InitStream /\ [][NextRestart]_vars

\* ---- start and shutdown --------------------------------------------------
InitShutdown ==
  /\ life = LifeIdle
  /\ gate = GateIdle
  /\ stream = StreamIdle
  /\ hub = HubIdle
  /\ plog = ParkingLogIdle
  /\ chg = ChargeIdle
  /\ vstate = VehicleStateIdle
  /\ poll = PollIdle
  /\ InitMachineIdle
  /\ InitServiceIdle

\* VehicleService.Start up to syncVehicles, from main when a token is on
\* file or from the handler of POST /api/auth/token, which the HTTP server
\* serves until main calls server.Shutdown: nothing when the service runs,
\* else a fresh stopCh and the running flag.  (One call at a time.)
Start ==
  /\ life.main # "exited"
  /\ ~life.running
  /\ ~life.sync
  /\ life' = [life EXCEPT !.running = TRUE, !.stopCh = "open", !.sync = TRUE]
  /\ UNCHANGED <<varsMachine, varsService, gate, stream, hub, plog, chg, vstate, poll>>

\* Start once syncVehicles has returned: on an error the running flag is
\* cleared, else the poll loop is started, and startAllStreaming makes a
\* fresh streaming context and the stream task of the car.
StartLaunch ==
  /\ life.main # "exited"
  /\ life.sync
  /\ \/ life' = [life EXCEPT !.running = FALSE, !.sync = FALSE]
     \/ \E k \in 1..MaxStarts :
          /\ life.loops[k] = "none"
          /\ \A j \in 1..(k - 1) : life.loops[j] # "none"
          /\ life' = [life EXCEPT !.sync = FALSE, !.loops[k] = "boot",
                                  !.ctx = "live", !.client = TRUE, !.task = "live"]
  /\ UNCHANGED <<varsMachine, varsService, gate, stream, hub, plog, chg, vstate, poll>>

\* A poll loop: the poll at boot, then per turn of its select either the
\* return on the closed stopCh or a tick, whose poll is under way until it
\* ends.  A poll that sees the car wake calls restartStreamingIfNeeded,
\* which starts a stream task when the map has no client; a task started on
\* a cancelled context is stopped from the outset.
pollLoop ==
  \E k \in 1..MaxStarts, wake \in BOOLEAN :
    /\ \/ /\ life.loops[k] = "idle"
          /\ life.stopCh = "closed"
          /\ ~wake
          /\ life' = [life EXCEPT !.loops[k] = "done"]
       \/ /\ life.loops[k] = "idle"
          /\ ~wake
          /\ life' = [life EXCEPT !.loops[k] = "polling"]
       \/ /\ life.loops[k] \in {"boot", "polling"}
          /\ life' = [life EXCEPT !.loops[k] = "idle",
                                  !.client = @ \/ wake,
                                  !.task = IF wake /\ ~life.client
                                             THEN IF life.ctx = "live" THEN "live" ELSE "stopped"
                                             ELSE @]
    /\ UNCHANGED <<varsMachine, varsService, gate, stream, hub, plog, chg, vstate, poll>>

\* VehicleService.Stop up to stopAllStreaming, called by main on SIGINT or
\* SIGTERM: nothing when the service does not run, else the streaming
\* context is cancelled, every client stopped and the map emptied.
Stop ==
  /\ life.main = "serving"
  /\ life' = IF ~life.running
               THEN [life EXCEPT !.main = "stopped"]
               ELSE [life EXCEPT !.main = "closing", !.running = FALSE,
                                 !.ctx = "cancelled", !.client = FALSE,
                                 !.task = IF @ = "live" THEN "stopped" ELSE @]
  /\ UNCHANGED <<varsMachine, varsService, gate, stream, hub, plog, chg, vstate, poll>>

\* Stop: close(s.stopCh).
StopClose ==
  /\ life.main = "closing"
  /\ life' = [life EXCEPT !.main = "waiting", !.stopCh = "closed"]
  /\ UNCHANGED <<varsMachine, varsService, gate, stream, hub, plog, chg, vstate, poll>>

\* Stop: s.wg.Wait() returns when every poll loop has returned.
StopWait ==
  /\ life.main = "waiting"
  /\ \A k \in 1..MaxStarts : life.loops[k] \in {"none", "done"}
  /\ life' = [life EXCEPT !.main = "stopped"]
  /\ UNCHANGED <<varsMachine, varsService, gate, stream, hub, plog, chg, vstate, poll>>

\* main after Stop: the token is saved, server.Shutdown, and on return the
\* deferred db.Close().
mainExit ==
  /\ life.main = "stopped"
  /\ life' = [life EXCEPT !.main = "exited"]
  /\ UNCHANGED <<varsMachine, varsService, gate, stream, hub, plog, chg, vstate, poll>>

NextShutdown ==
  \/ Start
  \/ StartLaunch
  \/ pollLoop
  \/ Stop
  \/ StopClose
  \/ StopWait
  \/ mainExit

SpecShutdown == InitShutdown /\ [][NextShutdown]_vars

\* ---- the charging process on its own -------------------------------------
\* charge_state of a snapshot polled while charging: charger_power in kW and
\* charge_energy_added in tenths of a kWh.
ChargeSnapshots == [charger_power : {0, 50, 80, 120}, charge_energy_added : {20, 50, 75}]

\* updateActiveChargingSnapshot that stores the power of the snapshot as
\* the maximum.
updateActiveChargingSnapshotLatest(cp, data) ==
  [cp EXCEPT !.charge_energy_added = data.charge_energy_added,
             !.charger_power_max = data.charger_power]

\* updateActiveChargingSnapshot and UpdateSnapshot: the row read by
\* GetActiveProcess gets the energy of the snapshot and the power of the
\* snapshot if the row has none or a smaller one.
updateActiveChargingSnapshot(cp, data) ==
  [cp EXCEPT !.charge_energy_added = data.charge_energy_added,
             !.charger_power_max =
                IF @ = Null \/ data.charger_power > @ THEN data.charger_power ELSE @]

SetCharge(cp) ==
  /\ chg' = cp
  /\ UNCHANGED <<varsMachine, varsService, gate, stream, hub, plog, vstate, poll, life>>

InitCharge ==
  /\ chg = ChargeIdle
  /\ vstate = VehicleStateIdle
  /\ poll = PollIdle
  /\ life = LifeIdle
  /\ gate = GateIdle
  /\ stream = StreamIdle
  /\ hub = HubIdle
  /\ plog = ParkingLogIdle
  /\ InitMachineIdle
  /\ InitServiceIdle

\* A full poll finds the car charging: startCharging creates the row when
\* the machine enters charging, and the snapshot update step runs on the open
\* row.
PollCharging ==
  \E data \in ChargeSnapshots :
    /\ chg.row \in {"none", "open"}
    /\ chg.n < MaxChargeSamples
    /\ LET cp == IF chg.row = "none" THEN [chg EXCEPT !.row = "open"] ELSE chg
       IN SetCharge([updateActiveChargingSnapshot(cp, data)
                       EXCEPT !.seen = @ \cup {data.charger_power},
                              !.energy = data.charge_energy_added,
                              !.energies = @ \cup {data.charge_energy_added},
                              !.n = @ + 1])

\* A full poll finds the car no longer charging: endCharging reads the open
\* row, sets the end columns and the energy of the snapshot, and
\* CompleteProcess writes it with the maximum it was read with.
PollChargingEnded ==
  \E data \in ChargeSnapshots :
    /\ chg.row = "open"
    /\ SetCharge([chg EXCEPT !.row = "closed",
                             !.charge_energy_added = data.charge_energy_added,
                             !.energy = data.charge_energy_added,
                             !.energies = @ \cup {data.charge_energy_added}])

\* The next charging process of the car.
NextProcess ==
  /\ chg.row = "closed"
  /\ SetCharge(ChargeIdle)

NextCharge ==
  \/ PollCharging
  \/ PollChargingEnded
  \/ NextProcess

SpecCharge == InitCharge /\ [][NextCharge]_vars

\* ---- the stream handler and VehicleState ----------------------------------
\* Parsed data:update tuples of a known car: shift_state, power, soc, the
\* pair (est_lat, est_lng) as one value (0 when both are zero), speed in
\* mph and heading.
StreamDataValues ==
  [shift : {"", "D"}, power : {-1, 0, 1}, soc : {0, 80}, est : {0, 31},
   speed : {0, 30}, heading : {0, 90}]

\* tesla.MphToKmh: mph times 1.60934, as an int.
MphToKmh(mph) == (mph * 160934) \div 100000

\* The closure handleStreamData passes to machine.UpdateState.
UpdateState(vs, data) ==
  [vs EXCEPT !.BatteryLevel = IF data.soc > 0 THEN data.soc ELSE @,
             !.LatLng = IF data.est # 0 THEN data.est ELSE @,
             !.Speed = IF data.speed > 0 THEN MphToKmh(data.speed) ELSE @,
             !.Power = data.power,
             !.Heading = IF data.heading > 0 THEN data.heading ELSE @]

\* What handleStreamData leaves in VehicleState: the branches of a driving
\* gear and of negative power return before machine.UpdateState.
streamVehicleState(vs, data) ==
  IF data.shift \in {"D", "N", "R"} THEN vs
  ELSE IF data.power < 0 THEN vs
  ELSE UpdateState(vs, data)

InitStreamState ==
  /\ InitService
  /\ InitMachineIdle
  /\ gate = GateIdle
  /\ stream = StreamIdle
  /\ hub = HubIdle
  /\ plog = ParkingLogIdle
  /\ chg = ChargeIdle
  /\ vstate = VehicleStateIdle
  /\ poll = PollIdle
  /\ life = LifeIdle

\* parseDataValue: the fields of a data:update value are taken over when
\* the value has at least 13 of them; an empty or shorter value leaves the
\* message with the zero values it was decoded with.
parseDataValue(fields, sent) ==
  IF fields < 13 THEN NoStreamData ELSE sent

\* handleMessage for a data:update of the car whose value has 0 (empty), 12
\* or 13 comma-separated fields: parseDataValue, then the OnData callback
\* handleStreamData(vehicleID, data): the machine and the scheduler as in
\* StreamData, and VehicleState.
StreamUpdate ==
  /\ \E sent \in StreamDataValues, fields \in {0, 12, 13} :
       LET data == parseDataValue(fields, sent)
           tuple == [shift |-> data.shift, power |-> data.power, latlng |-> data.est # 0]
       IN /\ CommitService(handleStreamData(Cur, tuple), "StreamData", Cur, FALSE,
                           "none", NoResp, tuple)
          /\ vstate' = [vs |-> streamVehicleState(vstate.vs, data), data |-> data,
                        fields |-> fields, handled |-> TRUE]
  /\ UNCHANGED phase
  /\ UNCHANGED <<varsMachine, gate, stream, hub, plog, chg, poll, life>>

NextStreamState ==
  \/ StreamUpdate
  \/ PersistStreamPosition
  \/ Suspend

SpecStreamState == InitStreamState /\ [][NextStreamState]_vars

\* ---- the poll loop and the stream handler side by side --------------------
\* The body of the loop of pollAllVehiclesWithBackoff in three steps, each
\* under its own locks, with handleStreamData of the stream goroutine free to
\* run in between.
InitPollRace ==
  /\ InitService
  /\ InitMachineIdle
  /\ gate = GateIdle
  /\ stream = StreamIdle
  /\ hub = HubIdle
  /\ plog = ParkingLogIdle
  /\ chg = ChargeIdle
  /\ vstate = VehicleStateIdle
  /\ poll = PollIdle
  /\ life = LifeIdle

\* A tick: shouldPollVehicle, the read of the current state and the calls
\* to the vendor.
PollBegin ==
  /\ phase = "run"
  /\ poll.pos = "idle"
  /\ LET now == [Cur EXCEPT !.lastPollTimes = Older(@, AgeCap),
                            !.lastUsedTimes = Older(@, SuspendAfterIdleMin),
                            !.LastUsed = Older(@, SuspendAfterIdleMin)]
     IN IF ~shouldPollVehicle(now)
          THEN /\ CommitService(now, "PollTick", now, FALSE, "none", NoResp, NoTuple)
               /\ UNCHANGED poll
          ELSE \E listing \in ListingResults \cup {"none"}, resp \in DataResponses \cup {NoResp} :
                 /\ (listing # "none") <=> (now.fsm \in Lightweight)
                 /\ (resp # NoResp) <=> (listing \in {"none", "online"})
                 /\ CommitService(now, "PollTick", now, TRUE, listing, resp, NoTuple)
                 /\ poll' = [pos |-> "fetched", light |-> now.fsm \in Lightweight,
                             listing |-> listing, resp |-> resp,
                             requested |-> FALSE]
  /\ UNCHANGED phase
  /\ UNCHANGED <<varsMachine, gate, stream, hub, plog, chg, vstate, life>>

\* The answer is handled: pollVehicleLightweight or pollVehicle as chosen
\* before the call, and applyBackoff on an error.
PollProcess ==
  /\ poll.pos = "fetched"
  /\ LET r1 == IF poll.light
                 THEN pollVehicleLightweight(Cur, poll.listing, poll.resp)
                 ELSE pollVehicle(Cur, poll.resp)
         r2 == IF r1.err THEN applyBackoff(r1) ELSE r1
     IN CommitService(r2, "PollProcess", Cur, TRUE, poll.listing, poll.resp, NoTuple)
  /\ poll' = [poll EXCEPT !.pos = "processed"]
  /\ UNCHANGED phase
  /\ UNCHANGED <<varsMachine, gate, stream, hub, plog, chg, vstate, life>>

\* updateNextPollTime(car.ID, now) closes the body of the loop.
PollEnd ==
  /\ poll.pos = "processed"
  /\ CommitService(updateNextPollTime(Cur), "PollEnd", Cur, TRUE, poll.listing,
                   poll.resp, NoTuple)
  /\ poll' = [PollIdle EXCEPT !.requested = poll.requested]
  /\ UNCHANGED phase
  /\ UNCHANGED <<varsMachine, gate, stream, hub, plog, chg, vstate, life>>

\* The stream goroutine handles a tuple; a driving gear or negative power
\* ends in triggerImmediatePoll.
StreamRequest ==
  /\ \E data \in StreamTuples :
       /\ CommitService(handleStreamData(Cur, data), "StreamData", Cur, FALSE,
                        "none", NoResp, data)
       /\ poll' = [poll EXCEPT !.requested =
                      IF data.shift \in {"D", "N", "R"} \/ data.power < 0 THEN TRUE ELSE @]
  /\ UNCHANGED phase
  /\ UNCHANGED <<varsMachine, gate, stream, hub, plog, chg, vstate, life>>

NextPollRace ==
  \/ BootPoll
  \/ PollBegin
  \/ PollProcess
  \/ PollEnd
  \/ StreamRequest
  \/ PersistStreamPosition

SpecPollRace == InitPollRace /\ [][NextPollRace]_vars

\* ------------------------------------------------------------------------
\* Properties of the service (checked under Spec) and of the components
\* (each under its own specification).

\* C1: for each session kind in {drive, charge, park} at most one row of the
\* car has end_time NULL; opening a session leaves no older one open.
C1_SingleOpenSession ==
  /\ OpenCount(drives) <= 1
  /\ OpenCount(charges) <= 1
  /\ OpenCount(parkings) <= 1

\* C2: after every tick a car that is online or driving does not have both a
\* Drive and a Parking open, and a car that is driving has one of them open.
C2_DriveParkComplement ==
  (last.op = "PollTick" /\ fsm \in {"online", "driving"}) =>
    /\ ~(GetActive(drives) # 0 /\ GetActive(parkings) # 0)
    /\ fsm = "driving" => (GetActive(drives) # 0 \/ GetActive(parkings) # 0)

\* C3: a Position inserted while the machine is driving and a Drive of the car
\* is open carries the id of that Drive.
C3_PositionDriveLinkage ==
  (lastPosition.state = "driving" /\ lastPosition.open # 0) =>
    lastPosition.drive_id = lastPosition.open

\* C4: firing event e from state s succeeds exactly when s is a source of e in
\* the table of eleven events, and then moves the machine to the destination
\* of the table; a failed firing leaves the state alone.
C4_TransitionTable ==
  LET table ==
        [e \in EventNames |->
          CASE e = "wake_up" -> [src |-> {"offline", "asleep"}, dst |-> "online"]
            [] e = "fall_asleep" -> [src |-> {"online", "suspended"}, dst |-> "asleep"]
            [] e = "go_offline" ->
                 [src |-> {"online", "asleep", "suspended"}, dst |-> "offline"]
            [] e = "start_driving" -> [src |-> {"online", "suspended"}, dst |-> "driving"]
            [] e = "stop_driving" -> [src |-> {"driving"}, dst |-> "online"]
            [] e = "start_charging" -> [src |-> {"online", "suspended"}, dst |-> "charging"]
            [] e = "stop_charging" -> [src |-> {"charging"}, dst |-> "online"]
            [] e = "start_updating" -> [src |-> {"online"}, dst |-> "updating"]
            [] e = "stop_updating" -> [src |-> {"updating"}, dst |-> "online"]
            [] e = "suspend" -> [src |-> {"online"}, dst |-> "suspended"]
            [] e = "resume" -> [src |-> {"suspended"}, dst |-> "online"]]
  IN /\ Cardinality(EventNames) = 11
     /\ mLast.event # "" =>
          /\ mLast.ok <=> mLast.from \in table[mLast.event].src
          /\ mLast.ok => (mLast.to = table[mLast.event].dst /\ mState = mLast.to)
          /\ ~mLast.ok => mState = mLast.from

\* fall_asleep was fired from suspended and took the machine to asleep.
C4_Witness ==
  /\ mLast.ok
  /\ mLast.event = "fall_asleep"
  /\ mLast.from = "suspended"
  /\ mState = "asleep"

\* C5: in a tick, a due car that is asleep, offline or suspended gets the
\* listing endpoint first, and the full-data endpoint only after the listing
\* returned online.
C5_LightweightProbe ==
  (last.op = "PollTick" /\ last.due
     /\ last.pre \in {"asleep", "offline", "suspended"}) =>
    /\ Len(last.calls) \in {1, 2}
    /\ last.calls[1] = "vehicle"
    /\ \A i \in DOMAIN last.calls :
         last.calls[i] = "vehicle_data" => (i = 2 /\ last.listing = "online")

\* A suspended car was probed, the listing said online, full data was fetched.
C5_Witness ==
  /\ last.op = "PollTick"
  /\ last.pre = "suspended"
  /\ last.listing = "online"
  /\ last.calls = <<"vehicle", "vehicle_data">>

\* C6: after every tick the interval of a car that is asleep or offline lies
\* between PollBackoffInitial and PollBackoffMax.
C6_BackoffBounds ==
  (last.op = "PollTick" /\ fsm \in {"asleep", "offline"}) =>
    /\ PollBackoffInitial <= pollIntervals
    /\ pollIntervals <= PollBackoffMax

\* An offline car whose interval has grown to the maximum.
C6_Witness ==
  /\ last.op = "PollTick"
  /\ last.due
  /\ last.pre = "offline"
  /\ fsm = "offline"
  /\ pollIntervals = PollBackoffMax

\* C7: from suspended, a stream tuple with negative power (and no driving
\* gear) fires resume and then start_charging, leaves the machine charging and
\* sets the interval to 0, so that the next tick finds the car due.
C7_StreamChargingFromSuspended ==
  (last.op = "StreamData" /\ last.pre = "suspended"
     /\ last.power < 0 /\ last.shift = "") =>
    /\ last.fired = <<"resume", "start_charging">>
    /\ fsm = "charging"
    /\ pollIntervals = 0
    /\ shouldPollVehicle([Cur EXCEPT !.lastPollTimes = Older(@, AgeCap)])

\* The tuple arrived while suspended and the machine is charging.
C7_Witness ==
  /\ last.op = "StreamData"
  /\ last.pre = "suspended"
  /\ last.power < 0
  /\ last.shift = ""
  /\ fsm = "charging"

\* C8 (as stated): from asleep, a stream tuple with shift_state "D" takes the
\* machine to driving and a Drive row is created.
C8_StreamDrivingFromAsleep ==
  (last.op = "StreamData" /\ last.pre = "asleep" /\ last.shift = "D") =>
    /\ fsm = "driving"
    /\ last.newDrive

\* C8 (amended): from asleep, a stream tuple with shift_state "D" fires
\* nothing and creates no Drive: the machine stays asleep and the car is made
\* due at once.  The tick that then finds the listing online and a snapshot
\* in gear fires wake_up and start_driving and creates the Drive.
C8_StreamThenPollDrives ==
  /\ (last.op = "StreamData" /\ last.pre = "asleep" /\ last.shift = "D") =>
       /\ fsm = "asleep"
       /\ last.fired = <<>>
       /\ ~last.newDrive
       /\ pollIntervals = 0
       /\ shouldPollVehicle([Cur EXCEPT !.lastPollTimes = Older(@, AgeCap)])
  /\ (last.op = "PollTick" /\ last.due /\ last.pre = "asleep"
        /\ last.listing = "online" /\ last.kind = "data" /\ last.shift = "D") =>
       /\ last.fired = <<"wake_up", "start_driving">>
       /\ fsm = "driving"
       /\ last.newDrive
       /\ GetActive(drives) = Len(drives)

\* The tuple arrived while asleep; the car is asleep and due.
C8_Witness ==
  /\ last.op = "StreamData"
  /\ last.pre = "asleep"
  /\ last.shift = "D"
  /\ fsm = "asleep"
  /\ pollIntervals = 0

\* C9: a poll whose snapshot has a blocking condition never fires suspend and,
\* when it reaches the sleep gate, marks the car active; a poll fires suspend
\* only without a blocking condition and with lastUsedTimes at least
\* SuspendAfterIdleMin old; activity on the stream marks the car active too.
C9_BlockedNeverSuspends ==
  /\ (last.op \in {"PollTick", "BootPoll"} /\ last.block # "") =>
       /\ \A i \in DOMAIN last.fired : last.fired[i] # "suspend"
       /\ fsm = "online" => lastUsedTimes = 0
  /\ (last.op \in {"PollTick", "BootPoll"}
        /\ \E i \in DOMAIN last.fired : last.fired[i] = "suspend") =>
       /\ last.block = ""
       /\ last.idle
  /\ (last.op = "StreamData" /\ (last.shift = "D" \/ last.power # 0)) =>
       lastUsedTimes = 0

\* An online car idle for the threshold was polled with a blocking condition:
\* it is still online and its idle timer was reset.
C9_Witness ==
  /\ last.op = "PollTick"
  /\ last.pre = "online"
  /\ last.block # ""
  /\ last.idle
  /\ fsm = "online"
  /\ lastUsedTimes = 0

\* C10: a full poll of an online car that finds no blocking condition and no
\* activity, SuspendAfterIdleMin or more after the car was last active (its
\* machine was created then, or it was marked active then), suspends the car,
\* and the tick ends with the interval SuspendPollInterval.
C10_IdleSuspends ==
  (last.op = "PollTick" /\ last.due /\ last.pre = "online"
     /\ last.kind = "data" /\ last.block = ""
     /\ fsm \in {"online", "suspended"}
     /\ (last.idle \/ (last.noEntry /\ last.old))) =>
    /\ fsm = "suspended"
    /\ pollIntervals = SuspendPollInterval

\* C11: after a full poll that reached the sleep gate in state online,
\* VehicleState has the fields sleep_block_reason and can_sleep (holding the
\* block reason of the snapshot, and whether it is empty).
C11_SleepFieldsRecorded ==
  (last.op \in {"PollTick", "BootPoll"} /\ last.kind = "data"
     /\ last.pre = "online" /\ last.block = "sentry_mode") =>
    {"sleep_block_reason", "can_sleep"} \subseteq VehicleStateFields

\* C12: the block reason is the first condition that holds in the order
\* user_present, sentry_mode, preconditioning, climate_on, doors_open,
\* trunk_open, frunk_open, windows_open, unlocked, power_usage,
\* downloading_update, unlocked counting only when require_not_unlocked is
\* set; it is empty exactly when none holds.
C12_BlockReasonOrder ==
  LET order == <<"user_present", "sentry_mode", "preconditioning", "climate_on",
                 "doors_open", "trunk_open", "frunk_open", "windows_open",
                 "unlocked", "power_usage", "downloading_update">>
      holds(i) == /\ order[i] \in gate.conds
                  /\ order[i] = "unlocked" => gate.require
  IN gate.evaluated =>
       /\ (gate.reason = "") <=> (\A i \in DOMAIN order : ~holds(i))
       /\ \A i \in DOMAIN order :
            (holds(i) /\ \A j \in 1..(i - 1) : ~holds(j)) => gate.reason = order[i]

\* Preconditioning, climate and power hold and the car is unlocked without
\* the option: the reason is preconditioning.
C12_Witness ==
  /\ gate.evaluated
  /\ ~gate.require
  /\ gate.conds = {"unlocked", "power_usage", "climate_on", "preconditioning"}
  /\ gate.reason = "preconditioning"

\* C13: suspend returns an error and changes nothing in driving, charging
\* and updating; succeeds and changes nothing in suspended, asleep and
\* offline; from online it fires suspend and the machine becomes suspended.
C13_SuspendByState ==
  [][last'.op = "SuspendLogging" =>
       /\ fsm \in {"driving", "charging", "updating"} =>
            /\ last'.err
            /\ last'.fired = <<>>
            /\ UNCHANGED <<fsm, pollIntervals, lastPollTimes, lastUsedTimes,
                           drives, charges, parkings>>
       /\ fsm \in {"suspended", "asleep", "offline"} =>
            /\ ~last'.err
            /\ last'.fired = <<>>
            /\ UNCHANGED <<fsm, pollIntervals, lastPollTimes, lastUsedTimes,
                           drives, charges, parkings>>
       /\ fsm = "online" =>
            /\ ~last'.err
            /\ last'.fired = <<"suspend">>
            /\ fsm' = "suspended"]_vars

\* suspend was refused while updating.
C13_Witness ==
  /\ last.op = "SuspendLogging"
  /\ last.pre = "updating"
  /\ last.err
  /\ fsm = "updating"

\* C14 (as stated): resume fires resume from suspended and leaves the machine
\* alone otherwise, and in every state sets last_active to now and the
\* interval to PollIntervalOnline.
C14_ResumeAlwaysBumps ==
  last.op = "ResumeLogging" =>
    /\ last.pre = "suspended" => (last.fired = <<"resume">> /\ fsm = "online")
    /\ last.pre # "suspended" => (last.fired = <<>> /\ fsm = last.pre)
    /\ lastUsedTimes = 0
    /\ pollIntervals = PollIntervalOnline

\* C14 (amended): resume fires resume from suspended and leaves the machine
\* alone otherwise; from suspended, asleep and offline it sets last_active to
\* now and the interval to PollIntervalOnline; from online, driving, charging
\* and updating it changes nothing.
C14_ResumeByState ==
  [][last'.op = "ResumeLogging" =>
       /\ ~last'.err
       /\ fsm = "suspended" => (last'.fired = <<"resume">> /\ fsm' = "online")
       /\ fsm # "suspended" => (last'.fired = <<>> /\ fsm' = fsm)
       /\ fsm \in {"suspended", "asleep", "offline"} =>
            /\ lastUsedTimes' = 0
            /\ pollIntervals' = PollIntervalOnline
       /\ fsm \in {"online", "driving", "charging", "updating"} =>
            UNCHANGED <<pollIntervals, lastPollTimes, lastUsedTimes>>]_vars

\* resume was called on a car asleep: still asleep, active now, on the
\* online interval.
C14_Witness ==
  /\ last.op = "ResumeLogging"
  /\ last.pre = "asleep"
  /\ fsm = "asleep"
  /\ lastUsedTimes = 0
  /\ pollIntervals = PollIntervalOnline

\* C15 (as stated): resume followed immediately by suspend leaves the machine
\* state and the poll interval as they were before the two calls.
C15_ResumeSuspendRestores ==
  (last.op = "SuspendLogging" /\ last.pair # NoPair) =>
    /\ fsm = last.pair.fsm
    /\ pollIntervals = last.pair.interval

\* C15 (amended): resume followed immediately by suspend leaves the machine
\* in the state it had, except that an online car ends suspended.  The poll
\* interval afterwards is SuspendPollInterval for a car that was suspended or
\* online, PollIntervalOnline for a car that was asleep or offline, and
\* unchanged for a car driving, charging or updating, where suspend returns
\* an error.
C15_ResumeSuspendByState ==
  (last.op = "SuspendLogging" /\ last.pair # NoPair) =>
    /\ fsm = (IF last.pair.fsm = "online" THEN "suspended" ELSE last.pair.fsm)
    /\ last.pair.fsm \in {"suspended", "online"} =>
         pollIntervals = SuspendPollInterval
    /\ last.pair.fsm \in {"asleep", "offline"} =>
         pollIntervals = PollIntervalOnline
    /\ last.pair.fsm \in {"driving", "charging", "updating"} =>
         (pollIntervals = last.pair.interval /\ last.err)

\* The two calls were made on a car offline at the maximal backoff: it is
\* offline on the online interval.
C15_Witness ==
  /\ last.op = "SuspendLogging"
  /\ last.pair = [fsm |-> "offline", interval |-> PollBackoffMax]
  /\ fsm = "offline"
  /\ pollIntervals = PollIntervalOnline

\* C16: once a data:error frame with error_type vehicle_error and "offline"
\* in its value was handled, the client is marked offline and the notice was
\* given, and no connection is attempted while the mark stands (it is cleared
\* only from outside, by ResetAndRestart).
C16_OfflineStopsReconnect ==
  /\ stream.vehicleOffline => stream.notified
  /\ ~stream.dialedOffline

\* C17: a subscriber whose buffer was full when a frame was delivered lost
\* that frame only: it is still subscribed (and its channel open for the
\* frames to come).
C17_SlowSubscriberStays ==
  \A client \in hub.overflowed :
    /\ client \in hub.clients
    /\ hub.conn[client] = "open"

\* C18: the first frame of every client that registered is an init frame
\* with the vehicle list and the states as they were when it registered; no
\* state_update comes before it.
C18_InitFrameFirst ==
  \A client \in 1..MaxClients :
    hub.conn[client] # "none" =>
      hub.first[client] = [type |-> "init", cars |-> TRUE, states |-> hub.joined[client]]

\* C19: no Drive, ChargingProcess or Parking row is written again once it is
\* closed: every row is open or was closed once; an end of session that finds
\* no open row, and the force-close of a closed row, write nothing.
C19_ClosedOnce ==
  /\ \A i \in DOMAIN drives : drives[i] \in {"open", "closed"}
  /\ \A i \in DOMAIN charges : charges[i] \in {"open", "closed"}
  /\ \A i \in DOMAIN parkings : parkings[i] \in {"open", "closed"}

\* A poll took a driving car out of driving when its drives were all closed
\* already: endDrive found no open drive and wrote nothing.
C19_Witness ==
  /\ last.op = "PollTick"
  /\ last.pre = "driving"
  /\ \E i \in DOMAIN last.fired : last.fired[i] = "stop_driving"
  /\ ~last.closedDrive
  /\ drives # <<>>
  /\ \A i \in DOMAIN drives : drives[i] = "closed"

\* C20: the events recorded for the open parking are exactly the edges of
\* the eight flags between consecutive samples, one event an edge, and their
\* replay from the flags saved at the start gives the flags of the latest
\* sample.
C20_EventsReplaySamples ==
  plog.open =>
    /\ plog.events = plog.edges
    /\ replay(plog.start, plog.events) = plog.sample

\* C21: the events of a parking are listed in the order in which they were
\* recorded, which is the order in which their edges were observed: from
\* the start flags {locked}, the samples {doors_open} and {locked} are
\* listed as doors_opened, unlocked, doors_closed, locked.
C21_ListedInRecordedOrder ==
  /\ plog.listed # <<>> => plog.listed = plog.events
  /\ (plog.listed # <<>> /\ plog.start = {"Locked"} /\ ~plog.restarted
        /\ plog.edges = <<"doors_opened", "unlocked", "doors_closed", "locked">>) =>
       plog.listed = <<"doors_opened", "unlocked", "doors_closed", "locked">>

C23_IllegalEventNoEffect ==
  [][ /\ (mNow' = mNow /\ ~CanTransition(mState, mLast'.event)) =>
           /\ ~mLast'.ok
           /\ mState' = mState
           /\ mSince' = mSince
           /\ mCallback' = <<>>
      /\ mSince' # mSince =>
           /\ mLast'.ok
           /\ mState' # mState
           /\ mSince' = mNow
           /\ mCallback' = <<mState, mState'>> ]_vars

\* An event was refused after the clock had moved on from the last
\* transition: state_since still holds the time of that transition.
C23_Witness ==
  /\ mLast.event # ""
  /\ ~mLast.ok
  /\ mCallback = <<>>
  /\ mSince > 0
  /\ mSince < mNow

C25_ErrorBacksOff ==
  [][ (last'.op = "PollTick" /\ last'.due /\ last'.err) =>
        LET prev == IF pollIntervals = Absent THEN 0 ELSE pollIntervals
        IN pollIntervals' =
             Max2(PollBackoffInitial,
                  Min2(prev * PollBackoffFactor, PollBackoffMax)) ]_vars

\* C26: after a poll in which the machine went from asleep or offline to
\* online, the interval of the car is the initial backoff.
C26_WakeResetsBackoff ==
  (/\ last.op = "PollTick"
   /\ last.pre \in {"asleep", "offline"}
   /\ last.fired # <<>>
   /\ last.fired[1] = "wake_up") =>
    pollIntervals = PollBackoffInitial

\* C28: when the full-data call of a tick fails with vehicle_unavailable, the
\* machine goes to asleep if fall_asleep is legal in its state and stays as
\* it is otherwise, the poll is not an error, and the interval of the car is
\* backed off: the previous interval times the factor, clamped.
C28_UnavailableSleepsAndBacksOff ==
  [][ (last'.op = "PollTick" /\ last'.due /\ last'.kind = "unavailable") =>
        LET prev == IF pollIntervals = Absent THEN 0 ELSE pollIntervals
        IN /\ fsm' = IF CanTransition(fsm, "fall_asleep") THEN "asleep" ELSE fsm
           /\ ~last'.err
           /\ pollIntervals' =
                Max2(PollBackoffInitial,
                     Min2(prev * PollBackoffFactor, PollBackoffMax)) ]_vars

\* C29 as stated: when the listing probe of a tick reports asleep or offline
\* for a car that is suspended, asleep or offline, the machine is in the
\* reported state after the tick.
C29_ProbeSetsState ==
  (/\ last.op = "PollTick"
   /\ last.due
   /\ last.listing \in {"asleep", "offline"}
   /\ last.pre \in {"suspended", "asleep", "offline"}) =>
    fsm = last.listing

\* C29: when the listing probe of a tick reports asleep or offline for a car
\* that is suspended, asleep or offline, the machine is in the reported state
\* after the tick, except that an offline car reported asleep stays offline
\* (fall_asleep has no edge from offline).
C29_ProbeSetsStateWhereLegal ==
  (/\ last.op = "PollTick"
   /\ last.due
   /\ last.listing \in {"asleep", "offline"}
   /\ last.pre \in {"suspended", "asleep", "offline"}) =>
    fsm = IF last.pre = "offline" /\ last.listing = "asleep"
            THEN "offline"
            ELSE last.listing

\* The probe reported offline for a suspended car and the machine took the
\* edge from suspended to offline.
C29_Witness ==
  /\ last.op = "PollTick"
  /\ last.due
  /\ last.listing = "offline"
  /\ last.pre = "suspended"
  /\ last.fired = <<"go_offline">>
  /\ fsm = "offline"

\* C30: every data:update tuple of the car leaves its power in VehicleState,
\* and its position, speed, heading and state of charge where the tuple
\* carries them, also when the tuple shows a driving gear or negative power.
C30_TupleUpdatesState ==
  vstate.handled =>
    /\ vstate.vs.Power = vstate.data.power
    /\ vstate.data.soc > 0 => vstate.vs.BatteryLevel = vstate.data.soc
    /\ vstate.data.est # 0 => vstate.vs.LatLng = vstate.data.est
    /\ vstate.data.speed > 0 => vstate.vs.Speed = MphToKmh(vstate.data.speed)
    /\ vstate.data.heading > 0 => vstate.vs.Heading = vstate.data.heading

\* C27: once an immediate poll has been requested for the car, the next
\* tick of the scheduler polls it, also when the request was made while a
\* poll of the car was in progress.
C27_ImmediatePollHonoured ==
  [][ (poll.pos = "idle" /\ poll.requested /\ last'.op = "PollTick") =>
        last'.due ]_vars

\* C31: while the machine is in driving, every stream tuple with a valid
\* position leads to a persisted Position: the handler hands the tuple to a
\* position goroutine.
C31_DrivingTuplePersisted ==
  [][ (last'.op = "StreamData" /\ fsm = "driving" /\ vstate'.data.est # 0) =>
        streamJobs' = streamJobs + 1 ]_vars

\* C32: after a full poll that reports Charging and leaves the machine in
\* charging the car has an open ChargingProcess, whether charging was entered
\* in that poll or before it through a stream tuple.
C32_ChargingHasProcess ==
  (/\ last.op \in {"PollTick", "BootPoll"}
   /\ last.kind = "data"
   /\ fsm = "charging") =>
    OpenCount(charges) >= 1

\* C33: whenever the client has no connection and the car is not marked
\* offline, a connection attempt is eventually made (Connect is called again)
\* unless the car is marked offline first.
C33_ReconnectEventually ==
  (~stream.connected /\ ~stream.vehicleOffline) ~>
    (stream.loop = "checked" \/ stream.vehicleOffline)

\* C34: when the client of the car is marked offline and a poll observes the
\* car online (the listing probe says online, or the full data of an online
\* car arrive), the mark is cleared and the stream restarted.
C34_OnlineRestartsStream ==
  [][ (/\ stream.vehicleOffline
       /\ varsService' # varsService
       /\ last'.op = "PollTick"
       /\ last'.due
       /\ (last'.listing = "online" \/ last'.kind = "data")) =>
        (~stream'.vehicleOffline /\ stream'.loop = "top") ]_vars

\* C35: the charge_energy_added of a closed charging process is the greatest
\* value of the counter seen in the snapshots of the session, also when the
\* counter went down in between.
C35_EnergyIsMaxObserved ==
  chg.row = "closed" =>
    /\ chg.charge_energy_added \in chg.energies
    /\ \A e \in chg.energies : e <= chg.charge_energy_added

\* C37: the poll the loop performs at boot does not request the full data
\* of a car whose synced state is asleep or offline (last.kind is "none"
\* exactly when GetVehicleData was not called).
C37_BootPollSparesSleepers ==
  (last.op = "BootPoll" /\ last.pre \in {"asleep", "offline"}) => last.kind = "none"

\* C38: a data:update whose value is empty or has fewer than 13 fields moves
\* neither the machine nor the schedule of the car (no immediate poll) and
\* leaves every field of VehicleState as it was.
C38_ShortUpdateIgnored ==
  [][ (last'.op = "StreamData" /\ vstate'.fields < 13) =>
        /\ fsm' = fsm
        /\ lastPollTimes' = lastPollTimes
        /\ pollIntervals' = pollIntervals
        /\ vstate'.vs = vstate.vs ]_vars

\* C39: a streaming client never has more than one read loop alive (the
\* model's client has one reconnect loop at a time by construction of
\* ResetAndRestart's guard, so the read loops are what can multiply).
C39_OneReadLoop ==
  Cardinality({i \in 1..MaxReaders : stream.readers[i].pos # "none"}) <= 1

\* C40: the hub closes the send channel of a client at most once and sends
\* nothing on it once it is closed, whatever the order of registrations,
\* unregistrations, broadcasts and removals of slow consumers.
C40_SendClosedOnce ==
  /\ \A c \in 1..MaxClients : hub.closes[c] <= 1
  /\ hub.late = {}
  /\ \A c \in hub.clients : hub.closes[c] = 0

\* A slow consumer was removed by a broadcast and unregistered afterwards.
C40_Witness ==
  \E c \in hub.gone : hub.closes[c] = 1 /\ c \in hub.overflowed

\* C36: at shutdown the stream tasks are stopped before the stop channel of
\* the poll loop is closed, and every poll loop has returned before the
\* database pool is closed.
C36_ShutdownOrder ==
  [][ /\ (life.main = "closing" /\ life'.main = "waiting") => life.task # "live"
      /\ (life.main = "stopped" /\ life'.main = "exited") =>
            \A k \in 1..MaxStarts : life.loops[k] \in {"none", "done"} ]_vars

====
